---------------------------- MODULE Spec2Model ----------------------------
(***************************************************************************)
(* A model of the nooterra agent registry (src/src/server.ts and the       *)
(* modules it imports): the admission layer (API-key guard, per-IP fixed   *)
(* window rate limiter), the registration pipeline over the relational     *)
(* store and the vector index, the heartbeat/reputation updates, the admin *)
(* reindex and the discovery pipeline.                                     *)
(*                                                                         *)
(* Conventions.  A JavaScript string is a sequence of one-character        *)
(* strings, so that endsWith, split, trim, template concatenation and the  *)
(* SQL ILIKE match are computed and not assumed.  undefined/null of a      *)
(* string-typed value is the empty sequence: every place the code looks at *)
(* such a value does so through truthiness (!x, x || y), which cannot tell *)
(* "" from null.  Any other optional value v is <<>> (absent) or <<v>>.    *)
(* A Map or a table keyed by a primary key is a function whose DOMAIN is   *)
(* the set of keys present.  Numbers in [0,1] (scores, reputation,         *)
(* availability) are integers in thousandths.  Time is in milliseconds.    *)
(***************************************************************************)
EXTENDS Integers, Sequences, FiniteSets, Bags, TLC

VARIABLES
    API_KEY,        \* server.ts:14   process.env.REGISTRY_API_KEY (NULL = unset)
    now,            \* Date.now()
    rateBucket,     \* server.ts:128  Map ip -> {count, resetAt}
    admitLog,       \* history: per ip, the times of its last admitted requests
    agents,         \* table agents, keyed by did
    capabilities,   \* table capabilities, in insertion (serial id) order
    points,         \* vector index collection: bag of point payloads
    calls,          \* in-flight register calls (one per connection slot)
    reindex,        \* the in-flight /admin/reindex call
    disc,           \* the in-flight discovery call
    ev,             \* the step just taken: request, reply, position
    embedder,       \* embeddings.ts:19-21 the module state of the embedder
    embeds,         \* the embed calls in flight and their results
    probe           \* an argument of normalizeEndpoint and its results

vars == <<API_KEY, now, rateBucket, admitLog, agents, capabilities, points,
          calls, reindex, disc, ev, embedder, embeds, probe>>

\* the service's requests leave these alone: the embedder is modelled on its
\* own
aside == <<embedder, embeds, probe>>

\* the service's own state, which the embedder leaves alone
service == <<API_KEY, now, rateBucket, admitLog, agents, capabilities, points,
             calls, reindex, disc, ev>>

-----------------------------------------------------------------------------
(* Values *)

NULL == <<>>
Truthy(x) == x # <<>>
OrElse(a, b) == IF Truthy(a) THEN a ELSE b          \* a || b
Some(x) == <<x>>
Val(o) == o[1]

Min(a, b) == IF a < b THEN a ELSE b
Max(a, b) == IF a > b THEN a ELSE b

\* Math.ceil(n / d) for an integer n and d > 0
CeilDiv(n, d) == IF n % d = 0 THEN n \div d ELSE (n \div d) + 1

Last(s) == s[Len(s)]
Front(s) == SubSeq(s, 1, Len(s) - 1)

toLowerCase(c) ==
    CASE c = "A" -> "a" [] c = "B" -> "b" [] c = "C" -> "c"
      [] c = "D" -> "d" [] c = "E" -> "e" [] OTHER -> c

\* String.prototype.toLowerCase
lowerCase(str) == [i \in DOMAIN str |-> toLowerCase(str[i])]

\* s.split(",")[0]
RECURSIVE FirstField(_)
FirstField(s) ==
    IF s = <<>> \/ Head(s) = "," THEN <<>>
    ELSE <<Head(s)>> \o FirstField(Tail(s))

RECURSIVE TrimStart(_)
TrimStart(s) == IF s # <<>> /\ Head(s) = " " THEN TrimStart(Tail(s)) ELSE s

RECURSIVE TrimEnd(_)
TrimEnd(s) == IF s # <<>> /\ Last(s) = " " THEN TrimEnd(Front(s)) ELSE s

trim(s) == TrimEnd(TrimStart(s))

-----------------------------------------------------------------------------
(* Configuration (server.ts:14-21), at values that keep the model small *)

RATE_LIMIT_MAX == 2
RATE_LIMIT_WINDOW_MS == 2000
HEARTBEAT_TTL_MS == 1000
MIN_REP_DISCOVER == 0
SIM_WEIGHT == 700
REP_WEIGHT == 250
AVAIL_WEIGHT == 200

TheKey == <<"k">>
ApiKeyConfigs == {NULL, TheKey}
ApiKeyHeaders == {NULL, TheKey, <<"k", "k">>}

\* The clock starts well past 2 x HEARTBEAT_TTL_MS, as an epoch clock does.
StartNow == 10000
MaxWindows == 1
Instants ==
    {StartNow + (k * RATE_LIMIT_WINDOW_MS) + d :
        k \in 0..MaxWindows, d \in {0, 1, 999}}

-----------------------------------------------------------------------------
(* Admission layer *)

UNKNOWN == <<"unknown">>


\* server.ts:130-133
clientIp(req) ==
    OrElse(OrElse(trim(FirstField(req.xff)), req.ip), UNKNOWN)

apiGuard_AnyKey(key, method, provided) ==
    LET isWrite == method \in {"POST", "PUT", "PATCH", "DELETE"}
    IN  IF ~Truthy(key) /\ ~isWrite THEN 0
        ELSE IF Truthy(key) /\ isWrite /\ ~Truthy(provided) THEN 401
        ELSE 0

\* server.ts:115-126; 0 = the guard lets the request through
apiGuard(key, method, provided) ==
    LET isWrite == method \in {"POST", "PUT", "PATCH", "DELETE"}
    IN  IF ~Truthy(key) /\ ~isWrite THEN 0
        ELSE IF Truthy(key) /\ isWrite /\ provided # key THEN 401
        ELSE 0

MapSet(m, k, v) == [x \in DOMAIN m \cup {k} |-> IF x = k THEN v ELSE m[x]]

\* server.ts:136: a new window opens
WindowExpired(bucket, ip, t) ==
    ip \notin DOMAIN bucket \/ t > bucket[ip].resetAt

OverLimit_Off(b) == b.count > RATE_LIMIT_MAX

\* server.ts:140
OverLimit(b) == b.count >= RATE_LIMIT_MAX

RetryAfter_Floor(b, t) == Max(0, (b.resetAt - t) \div 1000)

\* server.ts:141
RetryAfter(b, t) == Max(0, CeilDiv(b.resetAt - t, 1000))

rateLimitGuard_Sliding(bucket, ip, t) ==
    IF WindowExpired(bucket, ip, t)
    THEN [status |-> 0, retry |-> NULL,
          bucket |-> MapSet(bucket, ip,
                        [count |-> 1, resetAt |-> t + RATE_LIMIT_WINDOW_MS])]
    ELSE IF OverLimit(bucket[ip])
    THEN [status |-> 429, retry |-> Some(RetryAfter(bucket[ip], t)),
          bucket |-> bucket]
    ELSE [status |-> 0, retry |-> NULL,
          bucket |-> MapSet(bucket, ip,
                        [count |-> bucket[ip].count + 1,
                         resetAt |-> t + RATE_LIMIT_WINDOW_MS])]

\* server.ts:129-146; status 0 = the guard lets the request through
rateLimitGuard(bucket, ip, t) ==
    IF WindowExpired(bucket, ip, t)
    THEN [status |-> 0, retry |-> NULL,
          bucket |-> MapSet(bucket, ip,
                        [count |-> 1, resetAt |-> t + RATE_LIMIT_WINDOW_MS])]
    ELSE IF OverLimit(bucket[ip])
    THEN [status |-> 429, retry |-> Some(RetryAfter(bucket[ip], t)),
          bucket |-> bucket]
    ELSE [status |-> 0, retry |-> NULL,
          bucket |-> MapSet(bucket, ip,
                        [count |-> bucket[ip].count + 1,
                         resetAt |-> bucket[ip].resetAt])]


\* the preHandler lists of the routes (server.ts:148, 270, 288, 315, 453)
HasRateLimit(route) == route # "reindex"
HasApiGuard(route) == TRUE

Admission_KeyFirst(route, req) ==
    LET ip == clientIp(req)
        ag == IF HasApiGuard(route)
              THEN apiGuard(API_KEY, "POST", req.apiKey)
              ELSE 0
        rl == IF HasRateLimit(route) /\ ag = 0
              THEN rateLimitGuard(rateBucket, ip, now)
              ELSE [status |-> 0, retry |-> NULL, bucket |-> rateBucket]
    IN  [ip |-> ip,
         status |-> IF ag # 0 THEN ag ELSE rl.status,
         retry |-> rl.retry,
         bucket |-> rl.bucket,
         counted |-> HasRateLimit(route) /\ ag = 0 /\ rl.status = 0]

\* The preHandler chain of a route on a request at the current time:
\* status 0 = the handler runs.
Admission(route, req) ==
    LET ip == clientIp(req)
        rl == IF HasRateLimit(route)
              THEN rateLimitGuard(rateBucket, ip, now)
              ELSE [status |-> 0, retry |-> NULL, bucket |-> rateBucket]
        ag == IF HasApiGuard(route)
              THEN apiGuard(API_KEY, "POST", req.apiKey)
              ELSE 0
    IN  [ip |-> ip,
         status |-> IF rl.status # 0 THEN rl.status ELSE ag,
         retry |-> rl.retry,
         bucket |-> rl.bucket,
         counted |-> HasRateLimit(route) /\ rl.status = 0]

\* the admitted requests of ip, newest last, as far back as a violation of
\* the cap needs
LogAdmit(log, ip, t) ==
    LET old == IF ip \in DOMAIN log THEN log[ip] ELSE <<>>
        all == Append(old, t)
    IN  MapSet(log, ip,
               IF Len(all) > RATE_LIMIT_MAX + 1 THEN Tail(all) ELSE all)


-----------------------------------------------------------------------------
(* Agent cards (src/src/acard.ts) *)

\* acard.ts:53-56
normalizeEndpoint(url) ==
    IF ~Truthy(url) THEN NULL
    ELSE IF Last(url) = "/" THEN Front(url) ELSE url

\* acard.ts:22-40: the fields in a fixed order, absent optional fields as null
canonicalize(card) ==
    <<card.did, card.endpoint, card.publicKey, card.version, card.lineage,
      [k \in DOMAIN card.capabilities |->
          <<card.capabilities[k].id, card.capabilities[k].description>>]>>

\* Ed25519 keys: a public key names its key pair; only well-formed keys and
\* signatures decode (bs58.decode, nacl's length checks).
PK1 == <<"P", "1">>
PK2 == <<"P", "2">>
BadKey == <<"0">>
PublicKeys == {PK1, PK2}

\* scripts signACARD (unnamed/part_000:77-81) with the node's own
\* canonicalize: nacl.sign.detached over the canonical bytes
Sign(pk, payload) == <<"sig", pk, payload>>
BadSignature == <<"0">>

IsSignature(sig) == Len(sig) = 3 /\ sig[1] = "sig"

\* nacl.sign.detached.verify
DetachedVerify(payload, sig, pub) == sig[2] = pub /\ sig[3] = payload

verifyACARD_Wellformed(card, signature) ==
    card.publicKey \in PublicKeys /\ IsSignature(signature)

\* acard.ts:42-51: a decode failure or a length mismatch throws, caught: false
verifyACARD(card, signature) ==
    IF card.publicKey \in PublicKeys /\ IsSignature(signature)
    THEN DetachedVerify(canonicalize(card), signature, card.publicKey)
    ELSE FALSE

-----------------------------------------------------------------------------
(* The stores *)

\* rows of table capabilities with agent_did = did, in table order
RowsOf(rows, did) == SelectSeq(rows, LAMBDA r : r.agent_did = did)

DeleteCapabilities_Nothing(rows, did) == rows

\* delete from capabilities where agent_did = $1      (server.ts:230)
DeleteCapabilities(rows, did) == SelectSeq(rows, LAMBDA r : r.agent_did # did)

\* insert into capabilities ...                       (server.ts:245-249)
InsertCapability(rows, did, cap) ==
    Append(rows, [agent_did |-> did, capability_id |-> cap.capabilityId,
                  description |-> cap.description])

deleteByAgent_Nothing(pts, did) == pts

\* qdrant.delete with filter agentDid = did           (part_003:153-159)
deleteByAgent(pts, did) ==
    [p \in {q \in DOMAIN pts : q.agentDid # did} |-> pts[p]]

\* qdrant.upsert of one point under a fresh random id (part_003:113-142)
upsertCapability(pts, did, cap) ==
    pts (+) SetToBag({[agentDid |-> did, capabilityId |-> cap.capabilityId,
                      description |-> cap.description]})

\* the points whose payload has agentDid = did
PointsOf(pts, did) == [p \in {q \in DOMAIN pts : q.agentDid = did} |-> pts[p]]
PointCount(pts, did) == BagCardinality(PointsOf(pts, did))

upsertAgent_Nothing(tbl, did, f) == tbl

upsertAgent_NoCoalesce(tbl, did, f) ==
    MapSet(tbl, did,
        IF did \in DOMAIN tbl
        THEN [tbl[did] EXCEPT
                !.name = f.name, !.endpoint = f.endpoint,
                !.public_key = f.public_key,
                !.wallet_address = f.wallet_address,
                !.acard_version = f.acard_version,
                !.acard_lineage = f.acard_lineage,
                !.acard_signature = f.acard_signature,
                !.acard_raw = f.acard_raw]
        ELSE [name |-> f.name, endpoint |-> f.endpoint,
              public_key |-> f.public_key,
              wallet_address |-> f.wallet_address,
              acard_version |-> f.acard_version,
              acard_lineage |-> f.acard_lineage,
              acard_signature |-> f.acard_signature,
              acard_raw |-> f.acard_raw,
              reputation |-> 0, availability_score |-> 0,
              last_seen |-> NULL, created_at |-> now])

upsertAgent_Replace(tbl, did, f) ==
    MapSet(tbl, did,
        [name |-> f.name, endpoint |-> f.endpoint,
         public_key |-> f.public_key,
         wallet_address |-> f.wallet_address,
         acard_version |-> f.acard_version,
         acard_lineage |-> f.acard_lineage,
         acard_signature |-> f.acard_signature,
         acard_raw |-> f.acard_raw,
         reputation |-> 0, availability_score |-> 0,
         last_seen |-> NULL, created_at |-> now])

\* insert into agents ... on conflict (did) do update (server.ts:214-227)
upsertAgent(tbl, did, f) ==
    MapSet(tbl, did,
        IF did \in DOMAIN tbl
        THEN [tbl[did] EXCEPT
                !.name = f.name, !.endpoint = f.endpoint,
                !.public_key = f.public_key,
                !.wallet_address = OrElse(f.wallet_address, @),
                !.acard_version = f.acard_version,
                !.acard_lineage = f.acard_lineage,
                !.acard_signature = f.acard_signature,
                !.acard_raw = f.acard_raw]
        ELSE [name |-> f.name, endpoint |-> f.endpoint,
              public_key |-> f.public_key,
              wallet_address |-> f.wallet_address,
              acard_version |-> f.acard_version,
              acard_lineage |-> f.acard_lineage,
              acard_signature |-> f.acard_signature,
              acard_raw |-> f.acard_raw,
              reputation |-> 0, availability_score |-> 0,
              last_seen |-> NULL, created_at |-> now])

-----------------------------------------------------------------------------
(* POST /v1/agent/register: validation (server.ts:148-211) *)

UUIDS == << <<"u1">>, <<"u2">>, <<"u3">>, <<"u4">> >>

\* the random ids not held by any row, point or call in flight: randomUUID
\* returns one of them
UsedIds ==
    {capabilities[k].capability_id : k \in DOMAIN capabilities}
    \cup {p.capabilityId : p \in DOMAIN points}
    \cup UNION {{c.capabilityId : c \in
                    {calls[s].caps[k] : k \in DOMAIN calls[s].caps}} :
                 s \in DOMAIN calls}
FreshIds == SelectSeq(UUIDS, LAMBDA u : u \notin UsedIds)

\* server.ts:67-74: description is a string of 1..500 characters
CapabilityParses(cap) == Len(cap.description) >= 1

WALLET_HEX_DIGITS == 40
HexDigits == {"0", "1", "2", "9", "a", "b", "f", "A", "B", "F"}

\* server.ts:98: /^0x[a-fA-F0-9]{40}$/
IsWalletAddress(w) ==
    /\ Len(w) = 2 + WALLET_HEX_DIGITS
    /\ w[1] = "0" /\ w[2] = "x"
    /\ \A i \in 3..Len(w) : w[i] \in HexDigits

\* server.ts:94-102 (did and capabilities are required, capabilities.min(1))
RegisterParses(body) ==
    /\ Truthy(body.did)
    /\ body.walletAddress # NULL => IsWalletAddress(body.walletAddress)
    /\ Len(body.capabilities) >= 1
    /\ \A k \in DOMAIN body.capabilities : CapabilityParses(body.capabilities[k])

\* how many ids randomUUID has to supply
RECURSIVE MissingIds(_)
MissingIds(caps) ==
    IF caps = <<>> THEN 0
    ELSE (IF Truthy(OrElse(Head(caps).capabilityId, Head(caps).capability_id))
          THEN 0 ELSE 1) + MissingIds(Tail(caps))

normalizedCaps_Random(caps, fresh) ==
    [k \in DOMAIN caps |->
        [capabilityId |-> fresh[k], description |-> caps[k].description]]

\* server.ts:158-164
RECURSIVE normalizedCaps(_, _)
normalizedCaps(caps, fresh) ==
    IF caps = <<>> THEN <<>>
    ELSE LET cap == Head(caps)
             given == OrElse(cap.capabilityId, cap.capability_id)
         IN  <<[capabilityId |-> OrElse(given, Head(fresh)),
                description |-> cap.description]>>
             \o normalizedCaps(Tail(caps),
                               IF Truthy(given) THEN fresh ELSE Tail(fresh))

acardCapIds(card) == {card.capabilities[k].id : k \in DOMAIN card.capabilities}

\* server.ts:194-201
CapsInCard(caps, card) ==
    \A k \in DOMAIN caps : caps[k].capabilityId \in acardCapIds(card)

\* server.ts:149-211: the reply status of the validation phase (0 = valid)
\* and the agent fields to persist
Validate(body, caps) ==
    LET endpoint0 == normalizeEndpoint(body.endpoint)
        hasCard  == body.acard # NULL
        hasSig   == Truthy(body.acard_signature)
        card     == Val(body.acard)
        acardEndpoint == normalizeEndpoint(card.endpoint)
        endpoint1 == OrElse(endpoint0, acardEndpoint)
        cardless == [name |-> body.name, endpoint |-> endpoint0,
                     public_key |-> NULL,
                     wallet_address |-> lowerCase(body.walletAddress),
                     acard_version |-> NULL, acard_lineage |-> NULL,
                     acard_signature |-> NULL, acard_raw |-> NULL]
        reject(st) == [status |-> st, fields |-> cardless]
    IN  IF ~RegisterParses(body) THEN reject(400)
        ELSE IF hasCard \/ hasSig
        THEN IF ~hasCard \/ ~hasSig THEN reject(400)
             ELSE IF ~Truthy(endpoint1) THEN reject(400)
             ELSE IF card.did # body.did THEN reject(400)
             ELSE IF acardEndpoint # endpoint1 THEN reject(400)
             ELSE IF ~verifyACARD(card, body.acard_signature) THEN reject(401)
             ELSE IF ~CapsInCard(caps, card) THEN reject(400)
             ELSE [status |-> 0,
                   fields |-> [name |-> body.name, endpoint |-> endpoint1,
                               public_key |-> card.publicKey,
                               wallet_address |-> lowerCase(body.walletAddress),
                               acard_version |-> Some(card.version),
                               acard_lineage |-> card.lineage,
                               acard_signature |-> body.acard_signature,
                               acard_raw |-> body.acard]]
        ELSE IF ~Truthy(endpoint0) THEN reject(400)
        ELSE [status |-> 0, fields |-> cardless]

-----------------------------------------------------------------------------
(* The embedder (src/src/embeddings.ts) *)

VECTOR_SIZE == 384

\* embeddings.ts:19-21.  loadingPromise: "null", or the promise "pending",
\* resolved to the "pipeline", or resolved to "nothing" (the load failed).
\* loads: how many times the model load has been started.
InitialEmbedder ==
    [transformerPipeline |-> FALSE, loadingPromise |-> "null",
     useRealEmbeddings |-> TRUE, loads |-> 0]

Callers == {1, 2, 3}

\* pc: "idle", awaiting loadTransformer ("load"), awaiting the pipeline
\* ("pipe"), or returned ("done").  text: the cleaned text.  began: the
\* value of loadingPromise and of useRealEmbeddings when the call was made.
\* vector: the vector returned; path: how it was made ("zero", "model",
\* "hash").
IdleEmbed ==
    [pc |-> "idle", text |-> NULL, began |-> <<"null", TRUE>>,
     vector |-> NULL, path |-> ""]

\* a vector, by its dimension and its Euclidean norm (0 or 1)
Vector(dim, norm) == [dim |-> dim, norm |-> norm]

\* embeddings.ts:87
ZeroVector == Vector(VECTOR_SIZE, 0)

\* embeddings.ts:61-74: no component is 0 (byte / 127.5 is never 1), so the
\* norm is positive and the division makes it 1
hashBasedEmbedding(text) == Vector(VECTOR_SIZE, 1)

\* embeddings.ts:39: all-MiniLM-L6-v2 gives 384 numbers, normalized
\* (normalize: true, embeddings.ts:97)
MODEL_DIM == 384
ModelOutput == Vector(MODEL_DIM, 1)

\* embeddings.ts:104-108: cut to VECTOR_SIZE or padded with zeros
PadOrTruncate(v) ==
    Vector(VECTOR_SIZE, IF v.dim > VECTOR_SIZE THEN 0 ELSE v.norm)

\* server.ts:23-28, without output schema and tags
capabilityText(capabilityId, description) ==
    trim(capabilityId \o <<" ">> \o description \o <<" ">> \o <<" ">>)

loadTransformer_NoPromiseCheck(e) ==
    IF e.transformerPipeline THEN e
    ELSE [e EXCEPT !.loadingPromise = "pending", !.loads = @ + 1]

\* embeddings.ts:27-31, 54: the module state after the call; the caller
\* awaits loadingPromise
loadTransformer(e) ==
    IF e.transformerPipeline THEN e
    ELSE IF e.loadingPromise # "null" THEN e
    ELSE [e EXCEPT !.loadingPromise = "pending", !.loads = @ + 1]

EmbedReturns(c, vector, path) ==
    [embeds[c] EXCEPT !.pc = "done", !.vector = Some(vector), !.path = path]

\* embeddings.ts:110-112: the catch logs
PipeFailure(e) == e

\* embeddings.ts:82-93: embed(text) up to its first await
EmbedCall(c, text) ==
    LET cleanText == trim(lowerCase(text))
        call == [IdleEmbed EXCEPT
                    !.text = cleanText,
                    !.began = <<embedder.loadingPromise,
                                embedder.useRealEmbeddings>>]
    IN  /\ embeds[c].pc \in {"idle", "done"}
        /\ IF ~Truthy(cleanText)
           THEN /\ embeds' = [embeds EXCEPT ![c] =
                                 [call EXCEPT !.pc = "done",
                                              !.vector = Some(ZeroVector),
                                              !.path = "zero"]]
                /\ UNCHANGED embedder
           ELSE IF embedder.useRealEmbeddings
           THEN /\ embedder' = loadTransformer(embedder)
                /\ embeds' = [embeds EXCEPT ![c] = [call EXCEPT !.pc = "load"]]
           ELSE /\ embeds' = [embeds EXCEPT ![c] =
                                 [call EXCEPT
                                    !.pc = "done",
                                    !.vector =
                                        Some(hashBasedEmbedding(cleanText)),
                                    !.path = "hash"]]
                /\ UNCHANGED embedder
        /\ UNCHANGED <<service, probe>>

\* embeddings.ts:34-43: the import and the pipeline construction succeed
LoadSucceeds ==
    /\ embedder.loadingPromise = "pending"
    /\ embedder' = [embedder EXCEPT !.transformerPipeline = TRUE,
                                    !.loadingPromise = "pipeline"]
    /\ UNCHANGED <<service, embeds, probe>>

\* embeddings.ts:44-51: one of them throws
LoadFails ==
    /\ embedder.loadingPromise = "pending"
    /\ embedder' = [embedder EXCEPT !.useRealEmbeddings = FALSE,
                                    !.loadingPromise = "nothing"]
    /\ UNCHANGED <<service, embeds, probe>>

\* embeddings.ts:93-95, 116: the awaited load has ended
EmbedLoaded(c) ==
    /\ embeds[c].pc = "load"
    /\ embedder.loadingPromise \in {"pipeline", "nothing"}
    /\ embeds' = [embeds EXCEPT ![c] =
                     IF embedder.loadingPromise = "pipeline"
                     THEN [@ EXCEPT !.pc = "pipe"]
                     ELSE EmbedReturns(c, hashBasedEmbedding(@.text), "hash")]
    /\ UNCHANGED <<service, embedder, probe>>

\* embeddings.ts:95-108: the pipeline returns
EmbedPiped(c) ==
    /\ embeds[c].pc = "pipe"
    /\ embeds' = [embeds EXCEPT ![c] =
                     EmbedReturns(c, PadOrTruncate(ModelOutput), "model")]
    /\ UNCHANGED <<service, embedder, probe>>

\* embeddings.ts:110-116: the pipeline throws
EmbedPipeFails(c) ==
    /\ embeds[c].pc = "pipe"
    /\ embedder' = PipeFailure(embedder)
    /\ embeds' = [embeds EXCEPT ![c] =
                     EmbedReturns(c, hashBasedEmbedding(@.text), "hash")]
    /\ UNCHANGED <<service, probe>>

\* no call of normalizeEndpoint made
NoProbe == [x |-> NULL, nx |-> NULL, nxs |-> NULL, nnx |-> NULL]

-----------------------------------------------------------------------------
(* State of the calls in flight, and the record of the step just taken *)

Slots == {1, 2}

\* at = 0: no call in flight on the slot; otherwise the position of the next
\* operation in RegisterPlan.  ov: a register call for the same did was in
\* flight during this call; ovx: a reindex was.  had: the numbers of rows and
\* of points of did when the call began.  trace: the store operations the
\* call has performed.  prev: when the last call that ended on the slot
\* replied 500 in its write phase and no call for its did has ended since,
\* the did of that call.  body: the request's body.  once: when the call began
\* right after the reply 200 of a call with the same body that nothing had
\* overlapped, the agent row, the rows and the points of did at that moment.
\* peer: when a register call for the same did has ended during this call,
\* its capabilities, and ok: it was the only one, it replied 200, and no
\* third call and no reindex had overlapped it.
IdleCall ==
    [at |-> 0, did |-> NULL, caps |-> <<>>, ov |-> FALSE, ovx |-> FALSE,
     had |-> <<0, 0>>, trace |-> <<>>, prev |-> NULL, body |-> NULL,
     once |-> NULL, peer |-> NULL]

IdleReindex == [at |-> 0, rows |-> <<>>]

\* the discovery in flight: pc is the await it stands at; vfail: its vector
\* search failed; snap: the tables when it began; ov: they had changed when
\* it read them
IdleDisc ==
    [pc |-> "idle", query |-> NULL, limit |-> 0, minReputation |-> 0,
     hits |-> <<>>, vfail |-> FALSE, snap |-> <<>>, ov |-> FALSE]

InFlight(s) == calls[s].at # 0

NoEv ==
    [op |-> "Init", route |-> "", status |-> 0, ip |-> NULL, retry |-> NULL,
     apiKey |-> NULL, t |-> 0, slot |-> 0, did |-> NULL, caps |-> <<>>,
     clean |-> FALSE, had |-> <<0, 0>>, trace |-> <<>>, query |-> NULL,
     limit |-> 0, minReputation |-> 0, vfail |-> FALSE, hits |-> <<>>,
     results |-> <<>>, after |-> FALSE, body |-> NULL, once |-> NULL,
     was |-> NULL, peer |-> NULL]

\* the record of a step on `route` that replies `status` (0: no reply yet)
Step(op, route, status) ==
    [NoEv EXCEPT !.op = op, !.route = route, !.status = status, !.t = now]

\* the record of a request that the preHandlers or the validation answered
Answered(op, route, adm, hdr, status) ==
    [Step(op, route, status) EXCEPT
        !.ip = adm.ip, !.retry = adm.retry, !.apiKey = hdr.apiKey]

Init ==
    /\ embedder = InitialEmbedder
    /\ embeds = [c \in Callers |-> IdleEmbed]
    /\ probe = NoProbe
    /\ API_KEY \in ApiKeyConfigs
    /\ now = StartNow
    /\ rateBucket = <<>>
    /\ admitLog = <<>>
    /\ agents = <<>>
    /\ capabilities = <<>>
    /\ points = EmptyBag
    /\ calls = [s \in Slots |-> IdleCall]
    /\ reindex = IdleReindex
    /\ disc = IdleDisc
    /\ ev = NoEv

\* the preHandlers' effect on the limiter, common to every request
Admit(route, hdr) ==
    LET adm == Admission(route, hdr)
    IN  /\ rateBucket' = adm.bucket
        /\ admitLog' = IF adm.counted THEN LogAdmit(admitLog, adm.ip, now)
                       ELSE admitLog

Tick(t) ==
    /\ t > now
    /\ now' = t
    /\ ev' = [Step("Tick", "", 0) EXCEPT !.t = t]
    /\ UNCHANGED <<aside, API_KEY, rateBucket, admitLog, agents, capabilities, points,
                   calls, reindex, disc>>

-----------------------------------------------------------------------------
(* POST /v1/agent/register: write phase (server.ts:213-259) *)

RegisterPlan_InsertFirst(caps) ==
    [j \in 1..(2 + 2 * Len(caps)) |->
        IF j = 1 THEN [op |-> "deleteCaps", k |-> 0]
        ELSE IF j = 2 THEN [op |-> "upsertPoint", k |-> 1]
        ELSE IF j = 3 THEN [op |-> "deleteVec", k |-> 0]
        ELSE IF j % 2 = 1 THEN [op |-> "upsertPoint", k |-> (j - 1) \div 2]
        ELSE [op |-> "insertRow", k |-> (j - 2) \div 2]]

\* server.ts:229-250: the store operations after the agent upsert, in the
\* order the handler awaits them; k is the index into normalizedCaps
RegisterPlan(caps) ==
    [j \in 1..(2 + 2 * Len(caps)) |->
        IF j = 1 THEN [op |-> "deleteCaps", k |-> 0]
        ELSE IF j = 2 THEN [op |-> "deleteVec", k |-> 0]
        ELSE IF j % 2 = 1 THEN [op |-> "upsertPoint", k |-> (j - 1) \div 2]
        ELSE [op |-> "insertRow", k |-> (j - 2) \div 2]]

NextOp(s) == RegisterPlan(calls[s].caps)[calls[s].at]
AtOp(s, op) == InFlight(s) /\ NextOp(s).op = op
IsLastOp(s) == calls[s].at = Len(RegisterPlan(calls[s].caps))

\* the last register call for did that ended had replied 500 in its write
\* phase
FailedBefore(did) == \E o \in Slots : calls[o].prev = Some(did)

\* the call on slot s ends with `status` (server.ts:251, 252-258)
Finish(s, status) ==
    LET did == calls[s].did
        own == IF status = 500 THEN Some(did) ELSE NULL
        seen == [caps |-> calls[s].caps,
                 ok |-> status = 200 /\ calls[s].peer = NULL
                            /\ ~calls[s].ovx]
    IN  [o \in Slots |->
            IF o = s THEN [IdleCall EXCEPT !.prev = own]
            ELSE [calls[o] EXCEPT
                    !.prev = IF @ = Some(did) THEN NULL ELSE @,
                    !.peer = IF ~InFlight(o) \/ calls[o].did # did THEN @
                             ELSE IF @ = NULL THEN Some(seen)
                             ELSE Some([caps |-> <<>>, ok |-> FALSE])]]

\* the capabilities of the one register call for the same did that
\* overlapped the call on slot s, when that call has replied 200, no other
\* call for did is in flight and no reindex overlapped either of the two
OnlyPeer(s) ==
    LET c == calls[s]
    IN  IF /\ c.peer # NULL /\ Val(c.peer).ok /\ ~c.ovx
           /\ \A o \in Slots \ {s} : ~(InFlight(o) /\ calls[o].did = c.did)
        THEN Some(Val(c.peer).caps)
        ELSE NULL

\* the call on slot s has performed `op`: it goes on, or replies 200 after
\* the last one (server.ts:251)
Advance(s, op) ==
    LET c == calls[s]
        tr == Append(c.trace, op)
    IN  IF IsLastOp(s)
        THEN /\ calls' = Finish(s, 200)
             /\ ev' = [Step(op, "register", 200) EXCEPT
                          !.slot = s, !.did = c.did, !.caps = c.caps,
                          !.clean = ~c.ov /\ ~c.ovx, !.had = c.had,
                          !.trace = tr, !.after = FailedBefore(c.did),
                          !.body = c.body, !.once = c.once,
                          !.peer = OnlyPeer(s)]
        ELSE /\ calls' = [calls EXCEPT ![s].at = @ + 1, ![s].trace = tr]
             /\ ev' = [Step(op, "register", 0) EXCEPT
                          !.slot = s, !.did = c.did, !.caps = c.caps,
                          !.clean = ~c.ov /\ ~c.ovx, !.had = c.had,
                          !.trace = tr]

PersistAgent_BeforeVerify(tbl, did, v) ==
    IF v.status \notin {0, 401} THEN tbl ELSE upsertAgent(tbl, did, v.fields)

\* server.ts:149-227: every rejection returns before the try block that
\* holds the first write
PersistAgent(tbl, did, v) ==
    IF v.status # 0 THEN tbl ELSE upsertAgent(tbl, did, v.fields)

\* The handler on an admitted request: the validation and the agent upsert.
\* The validation reads the request alone, so running it at the time the
\* upsert takes effect is the same as running it when the request arrived.
RegisterHandler(s, hdr, body) ==
    /\ MissingIds(body.capabilities) <= Len(FreshIds)
    /\ LET adm  == Admission("register", hdr)
           caps == normalizedCaps(body.capabilities, FreshIds)
           v    == Validate(body, caps)
           did  == body.did
           same == {o \in Slots : InFlight(o) /\ calls[o].did = did}
           had  == <<Len(RowsOf(capabilities, did)), PointCount(points, did)>>
           once == IF /\ ev.route = "register" /\ ev.status = 200 /\ ev.clean
                      /\ ev.body = Some(body)
                   THEN Some([agent  |-> agents[did],
                              rows   |-> RowsOf(capabilities, did),
                              points |-> PointsOf(points, did)])
                   ELSE NULL
       IN  IF v.status # 0
           THEN /\ ev' = Answered("RegisterRequest", "register", adm, hdr,
                                  v.status)
                /\ agents' = PersistAgent(agents, did, v)
                /\ UNCHANGED calls
           ELSE \/ /\ agents' = PersistAgent(agents, did, v)
                   /\ calls' =
                        [o \in Slots |->
                            IF o = s
                            THEN [at |-> 1, did |-> did, caps |-> caps,
                                  ov |-> same # {},
                                  ovx |-> reindex.at # 0,
                                  had |-> had,
                                  trace |-> <<"upsertAgent">>,
                                  prev |-> calls[s].prev,
                                  body |-> Some(body),
                                  once |-> once,
                                  peer |-> NULL]
                            ELSE IF o \in same
                            THEN [calls[o] EXCEPT !.ov = TRUE]
                            ELSE calls[o]]
                   /\ ev' = [Answered("RegisterRequest", "register", adm,
                                      hdr, 0) EXCEPT
                                !.slot = s, !.did = did, !.caps = caps,
                                !.had = had, !.trace = <<"upsertAgent">>,
                                !.body = Some(body),
                                !.was = IF did \in DOMAIN agents
                                        THEN Some(agents[did]) ELSE NULL]
                \/ \* the insert into agents throws (server.ts:252-258)
                   /\ ev' = [Answered("RegisterRequest", "register", adm,
                                      hdr, 500) EXCEPT
                                !.slot = s, !.did = did, !.caps = caps,
                                !.had = had]
                   /\ UNCHANGED <<agents, calls>>

\* A register request on connection s, its body any of `bodies`: the
\* preHandlers (server.ts:148), then the handler.
RegisterRequest(s, hdr, bodies) ==
    /\ ~InFlight(s)
    /\ Admit("register", hdr)
    /\ UNCHANGED <<aside, API_KEY, now, capabilities, points, reindex, disc>>
    /\ LET adm == Admission("register", hdr)
       IN  IF adm.status # 0
           THEN /\ ev' = Answered("RegisterRequest", "register", adm, hdr,
                                  adm.status)
                /\ UNCHANGED <<agents, calls>>
           ELSE \E body \in bodies : RegisterHandler(s, hdr, body)

RegDeleteCaps(s) ==
    /\ AtOp(s, "deleteCaps")
    /\ capabilities' = DeleteCapabilities(capabilities, calls[s].did)
    /\ Advance(s, "deleteCaps")
    /\ UNCHANGED <<aside, API_KEY, now, rateBucket, admitLog, agents, points,
                   reindex, disc>>

RegDeleteVec(s) ==
    /\ AtOp(s, "deleteVec")
    /\ points' = deleteByAgent(points, calls[s].did)
    /\ Advance(s, "deleteVec")
    /\ UNCHANGED <<aside, API_KEY, now, rateBucket, admitLog, agents, capabilities,
                   reindex, disc>>

RegUpsertPoint(s) ==
    /\ AtOp(s, "upsertPoint")
    /\ points' = upsertCapability(points, calls[s].did,
                                  calls[s].caps[NextOp(s).k])
    /\ Advance(s, "upsertPoint")
    /\ UNCHANGED <<aside, API_KEY, now, rateBucket, admitLog, agents, capabilities,
                   reindex, disc>>

RegInsertRow(s) ==
    /\ AtOp(s, "insertRow")
    /\ capabilities' = InsertCapability(capabilities, calls[s].did,
                                        calls[s].caps[NextOp(s).k])
    /\ Advance(s, "insertRow")
    /\ UNCHANGED <<aside, API_KEY, now, rateBucket, admitLog, agents, points,
                   reindex, disc>>

\* the awaited store call throws: catch, reply 500 (server.ts:252-258)
RegFail(s) ==
    /\ InFlight(s)
    /\ calls' = Finish(s, 500)
    /\ ev' = [Step("RegFail", "register", 500) EXCEPT
                 !.slot = s, !.did = calls[s].did, !.caps = calls[s].caps,
                 !.clean = ~calls[s].ov /\ ~calls[s].ovx,
                 !.had = calls[s].had, !.trace = calls[s].trace]
    /\ UNCHANGED <<aside, API_KEY, now, rateBucket, admitLog, agents, capabilities,
                   points, reindex, disc>>

-----------------------------------------------------------------------------
(* POST /v1/agent/reputation, POST /v1/agent/availability *)

InUnit(x) == 0 <= x /\ x <= 1000
Clamp01(x) == Max(0, Min(1000, x))

\* server.ts:278-281: update agents set reputation = $1 where did = $2
SetReputation(tbl, did, value) ==
    [d \in DOMAIN tbl |->
        IF d = did THEN [tbl[d] EXCEPT !.reputation = value] ELSE tbl[d]]

\* server.ts:295-298: update agents set availability_score = $1,
\* last_seen = coalesce($2, now()) where did = $3
SetAvailability(tbl, did, value, seen) ==
    [d \in DOMAIN tbl |->
        IF d = did
        THEN [tbl[d] EXCEPT !.availability_score = value, !.last_seen = seen]
        ELSE tbl[d]]

\* server.ts:268-284
ReputationRequest(hdr, body) ==
    /\ Admit("reputation", hdr)
    /\ UNCHANGED <<aside, API_KEY, now, capabilities, points, calls, reindex, disc>>
    /\ LET adm == Admission("reputation", hdr)
           ok  == Truthy(body.did) /\ InUnit(body.reputation)
           st  == IF adm.status # 0 THEN adm.status
                  ELSE IF ~ok THEN 400 ELSE 200
       IN  \/ /\ ev' = Answered("ReputationRequest", "reputation", adm, hdr,
                                st)
              /\ agents' = IF st = 200
                           THEN SetReputation(agents, body.did,
                                              Clamp01(body.reputation))
                           ELSE agents
           \/ \* the update throws: the error handler replies 500
              /\ st = 200
              /\ ev' = Answered("ReputationRequest", "reputation", adm, hdr,
                                500)
              /\ UNCHANGED agents

\* server.ts:286-301
AvailabilityRequest(hdr, body) ==
    /\ Admit("availability", hdr)
    /\ UNCHANGED <<aside, API_KEY, now, capabilities, points, calls, reindex, disc>>
    /\ LET adm == Admission("availability", hdr)
           ok  == Truthy(body.did) /\ InUnit(body.availability)
           st  == IF adm.status # 0 THEN adm.status
                  ELSE IF ~ok THEN 400 ELSE 200
           seen == IF body.last_seen # NULL THEN body.last_seen ELSE Some(now)
       IN  \/ /\ ev' = Answered("AvailabilityRequest", "availability", adm,
                                hdr, st)
              /\ agents' = IF st = 200
                           THEN SetAvailability(agents, body.did,
                                                body.availability, seen)
                           ELSE agents
           \/ /\ st = 200
              /\ ev' = Answered("AvailabilityRequest", "availability", adm,
                                hdr, 500)
              /\ UNCHANGED agents

-----------------------------------------------------------------------------
(* POST /admin/reindex (server.ts:453-479) *)

\* the reindex calls are cut off when the index holds this many points
MaxPoints == 5

\* server.ts:456-460: the capabilities joined with their agents
ReindexRows == SelectSeq(capabilities, LAMBDA r : r.agent_did \in DOMAIN agents)

\* apiGuard, ensureCollection and the select; the guard reads the request
\* and the configuration alone.
ReindexRequest(hdr) ==
    /\ reindex.at = 0
    /\ BagCardinality(points) + Len(ReindexRows) <= MaxPoints
    /\ Admit("reindex", hdr)
    /\ UNCHANGED <<aside, API_KEY, now, agents, capabilities, points, disc>>
    /\ LET adm == Admission("reindex", hdr)
       IN  IF adm.status # 0
           THEN /\ ev' = Answered("ReindexRequest", "reindex", adm, hdr,
                                  adm.status)
                /\ UNCHANGED <<calls, reindex>>
           ELSE \/ /\ ReindexRows # <<>>
                   /\ reindex' = [at |-> 1, rows |-> ReindexRows]
                   /\ calls' = [o \in Slots |->
                                  IF InFlight(o)
                                  THEN [calls[o] EXCEPT !.ovx = TRUE]
                                  ELSE calls[o]]
                   /\ ev' = Answered("ReindexRequest", "reindex", adm, hdr, 0)
                \/ /\ ReindexRows = <<>>
                   /\ ev' = Answered("ReindexRequest", "reindex", adm, hdr, 200)
                   /\ UNCHANGED <<calls, reindex>>
                \/ \* ensureCollection or the select throws
                   /\ ev' = Answered("ReindexRequest", "reindex", adm, hdr, 500)
                   /\ UNCHANGED <<calls, reindex>>

\* server.ts:461-473: one row of the loop
ReindexUpsert ==
    /\ reindex.at # 0
    /\ LET row == reindex.rows[reindex.at]
           last == reindex.at = Len(reindex.rows)
       IN  /\ points' = upsertCapability(points, row.agent_did,
                            [capabilityId |-> row.capability_id,
                             description |-> row.description])
           /\ reindex' = IF last THEN IdleReindex
                         ELSE [reindex EXCEPT !.at = @ + 1]
           /\ ev' = Step("ReindexUpsert", "reindex", IF last THEN 200 ELSE 0)
    /\ UNCHANGED <<aside, API_KEY, now, rateBucket, admitLog, agents, capabilities,
                   calls, disc>>

\* server.ts:475-478
ReindexFail ==
    /\ reindex.at # 0
    /\ reindex' = IdleReindex
    /\ ev' = Step("ReindexFail", "reindex", 500)
    /\ UNCHANGED <<aside, API_KEY, now, rateBucket, admitLog, agents, capabilities,
                   points, calls, disc>>

-----------------------------------------------------------------------------
(* POST /v1/agent/discovery (server.ts:315-437) *)

DEFAULT_LIMIT == 5
MAX_LIMIT == 50
KEYWORD_SCORE == 450

\* cosine scores the index may report, in thousandths
Scores == {900, 300}

\* server.ts:262-266
DiscoveryParses(body) ==
    /\ body.query # NULL
    /\ body.limit # NULL => Val(body.limit) \in 1..MAX_LIMIT
    /\ body.minReputation # NULL => Val(body.minReputation) \in 0..1000

\* part_003:144-151: the `limit` nearest points, best first; which points
\* are nearest is the embedder's matter
searchCapabilities(pts, limit) ==
    LET n == Min(limit, BagCardinality(pts))
    IN  {h \in [1..n -> [score : Scores, payload : DOMAIN pts]] :
            /\ \A i, j \in 1..n : i < j => h[i].score >= h[j].score
            /\ \A p \in DOMAIN pts :
                  Cardinality({i \in 1..n : h[i].payload = p}) <= pts[p]}

VectorFailure_Rethrown == [status |-> 500, hits |-> <<>>]

\* server.ts:321-328: embed or the search throws; the catch logs and the
\* handler goes on with no vector hit
VectorFailure == [status |-> 0, hits |-> <<>>]

\* PostgreSQL's [I]LIKE: % any run, _ any character, backslash quotes the
\* next character; ILIKE compares case-insensitively
RECURSIVE LikeMatch(_, _)
LikeMatch(pat, str) ==
    IF pat = <<>> THEN str = <<>>
    ELSE IF Head(pat) = "%"
    THEN LikeMatch(Tail(pat), str)
            \/ (str # <<>> /\ LikeMatch(pat, Tail(str)))
    ELSE IF Head(pat) = "\\"
    THEN /\ Len(pat) >= 2 /\ str # <<>>
         /\ toLowerCase(pat[2]) = toLowerCase(Head(str))
         /\ LikeMatch(Tail(Tail(pat)), Tail(str))
    ELSE /\ str # <<>>
         /\ (Head(pat) = "_" \/ toLowerCase(Head(pat)) = toLowerCase(Head(str)))
         /\ LikeMatch(Tail(pat), Tail(str))

\* server.ts:343: the pattern `%${query}%`
Pattern(query) == <<"%">> \o query \o <<"%">>

KeywordTest_IdOnly(row, tbl, query) ==
    /\ row.agent_did \in DOMAIN tbl
    /\ LikeMatch(Pattern(query), row.capability_id)

\* server.ts:331-342: the join and the where clause
KeywordTest(row, tbl, query) ==
    /\ row.agent_did \in DOMAIN tbl
    /\ \/ LikeMatch(Pattern(query), row.capability_id)
       \/ LikeMatch(Pattern(query), row.description)

\* server.ts:331-357: the lexical hits, in the order of the table.  The
\* numeric columns arrive as strings, so a hit's reputation is taken from
\* the agents lookup like a vector hit's (server.ts:390-393).
KeywordHits(rows, tbl, query) ==
    LET Test(row) == KeywordTest(row, tbl, query)
        sel == SelectSeq(rows, Test)
    IN  [k \in DOMAIN sel |->
            [score |-> KEYWORD_SCORE,
             payload |-> [agentDid |-> sel[k].agent_did,
                          capabilityId |-> sel[k].capability_id,
                          description |-> sel[k].description]]]

MergeHits_KeywordFirst(vectorHits, keywordHits) == keywordHits \o vectorHits

\* server.ts:357: hits = [...hits, ...keywordHits]
MergeHits(vectorHits, keywordHits) == vectorHits \o keywordHits

\* server.ts:359-380: the agents of the hits
AgentsOf(hits, tbl) ==
    [d \in {hits[k].payload.agentDid : k \in DOMAIN hits} \cap DOMAIN tbl |->
        tbl[d]]

\* server.ts:395
RepScore(lookup, did) ==
    IF did \in DOMAIN lookup THEN Clamp01(lookup[did].reputation) ELSE 0

Stale_OneTtl(lastSeen, t) ==
    t - (IF lastSeen # NULL THEN Val(lastSeen) ELSE 0) > HEARTBEAT_TTL_MS

\* server.ts:401-403
Stale(lastSeen, t) ==
    t - (IF lastSeen # NULL THEN Val(lastSeen) ELSE 0) > HEARTBEAT_TTL_MS * 2

\* server.ts:397-406: null when the agent is unknown
AvailabilityScore(lookup, did, t) ==
    IF did \in DOMAIN lookup
    THEN Some(IF Stale(lookup[did].last_seen, t) THEN 0
              ELSE Clamp01(lookup[did].availability_score))
    ELSE NULL

OrZero(o) == IF o = NULL THEN 0 ELSE Val(o)

DedupeKey_WithScore(hit) ==
    <<hit.payload.agentDid \o <<"|">> \o hit.payload.capabilityId, hit.score>>

\* server.ts:416
DedupeKey(hit) ==
    hit.payload.agentDid \o <<"|">> \o hit.payload.capabilityId

\* server.ts:384-431: the result built from one hit
ResultOf(hit, lookup, t) ==
    LET did   == hit.payload.agentDid
        rep   == RepScore(lookup, did)
        avail == AvailabilityScore(lookup, did, t)
    IN  [score |-> (SIM_WEIGHT * hit.score) + (REP_WEIGHT * rep)
                      + (AVAIL_WEIGHT * OrZero(avail)),
         vectorScore |-> hit.score,
         reputationScore |-> rep,
         availabilityScore |-> avail,
         agentDid |-> did,
         capabilityId |-> hit.payload.capabilityId,
         description |-> hit.payload.description]

\* server.ts:417-418: a hit whose key an earlier hit has is dropped
FirstOfKey(hits, k) ==
    \A j \in 1..(k - 1) : DedupeKey(hits[j]) # DedupeKey(hits[k])

Passes_NoReputation(r, minReputation) == OrZero(r.availabilityScore) > 0

\* server.ts:433
Passes(r, minReputation) ==
    OrZero(r.availabilityScore) > 0 /\ r.reputationScore >= minReputation

SortByScore_Unsorted(rs) == rs

\* Array.prototype.sort with (a, b) => b.score - a.score: stable, descending
RECURSIVE SortByScore(_)
SortByScore(rs) ==
    IF rs = <<>> THEN <<>>
    ELSE LET best == CHOOSE i \in DOMAIN rs :
                        /\ \A j \in DOMAIN rs : rs[j].score <= rs[i].score
                        /\ \A j \in 1..(i - 1) : rs[j].score < rs[i].score
             rest == [j \in 1..(Len(rs) - 1) |->
                         IF j < best THEN rs[j] ELSE rs[j + 1]]
         IN  <<rs[best]>> \o SortByScore(rest)

RECURSIVE Survivors(_, _, _, _, _)
Survivors(hits, k, lookup, t, minReputation) ==
    IF k > Len(hits) THEN <<>>
    ELSE LET r == ResultOf(hits[k], lookup, t)
         IN  (IF FirstOfKey(hits, k) /\ Passes(r, minReputation)
              THEN <<r>> ELSE <<>>)
             \o Survivors(hits, k + 1, lookup, t, minReputation)

\* server.ts:382-434
Results(hits, lookup, t, minReputation) ==
    SortByScore(Survivors(hits, 1, lookup, t, minReputation))

DiscEv(op, status) ==
    [Step(op, "discovery", status) EXCEPT
        !.query = disc.query, !.limit = disc.limit,
        !.minReputation = disc.minReputation, !.vfail = disc.vfail]

\* the tables differ from what the discovery saw when it began
Moved(d) == d.ov \/ d.snap # <<agents, capabilities>>

\* server.ts:315-328: the preHandlers, the validation, then the embedding of
\* the query and the vector search, whose failure is swallowed
DiscoveryRequest(hdr, body) ==
    /\ disc.pc = "idle"
    /\ Admit("discovery", hdr)
    /\ UNCHANGED <<aside, API_KEY, now, agents, capabilities, points, calls, reindex>>
    /\ LET adm == Admission("discovery", hdr)
           st  == IF adm.status # 0 THEN adm.status
                  ELSE IF ~DiscoveryParses(body) THEN 400 ELSE 0
           limit == IF body.limit # NULL THEN Val(body.limit)
                    ELSE DEFAULT_LIMIT
           minReputation == IF body.minReputation # NULL
                            THEN Val(body.minReputation)
                            ELSE MIN_REP_DISCOVER
           begun(hits, vfail) ==
               [pc |-> "keyword", query |-> Val(body.query), limit |-> limit,
                minReputation |-> minReputation, hits |-> hits,
                vfail |-> vfail, snap |-> <<agents, capabilities>>,
                ov |-> FALSE]
           started(d) ==
               [Answered("DiscoveryRequest", "discovery", adm, hdr, 0) EXCEPT
                   !.query = d.query, !.limit = d.limit,
                   !.minReputation = d.minReputation, !.vfail = d.vfail,
                   !.hits = d.hits]
       IN  IF st # 0
           THEN /\ ev' = Answered("DiscoveryRequest", "discovery", adm, hdr,
                                  st)
                /\ UNCHANGED disc
           ELSE \/ \E hits \in searchCapabilities(points, limit) :
                      /\ disc' = begun(hits, FALSE)
                      /\ ev' = started(begun(hits, FALSE))
                \/ IF VectorFailure.status # 0
                   THEN /\ ev' = [Answered("DiscoveryRequest", "discovery",
                                            adm, hdr, VectorFailure.status)
                                     EXCEPT !.vfail = TRUE]
                        /\ UNCHANGED disc
                   ELSE /\ disc' = begun(VectorFailure.hits, TRUE)
                        /\ ev' = started(begun(VectorFailure.hits, TRUE))

\* server.ts:331-357: the keyword query; with no hit at all the reply
\* follows at once (server.ts:360)
DiscKeyword ==
    /\ disc.pc = "keyword"
    /\ LET hits == MergeHits(disc.hits,
                             KeywordHits(capabilities, agents, disc.query))
       IN  IF hits = <<>>
           THEN /\ disc' = IdleDisc
                /\ ev' = [DiscEv("DiscKeyword", 200) EXCEPT
                             !.clean = ~Moved(disc)]
           ELSE /\ disc' = [disc EXCEPT !.pc = "agents", !.hits = hits,
                                        !.ov = Moved(disc)]
                /\ ev' = [DiscEv("DiscKeyword", 0) EXCEPT !.hits = hits]
    /\ UNCHANGED <<aside, API_KEY, now, rateBucket, admitLog, agents, capabilities,
                   points, calls, reindex>>

\* server.ts:364-436: the agents lookup, the results, the reply
DiscReply ==
    /\ disc.pc = "agents"
    /\ disc' = IdleDisc
    /\ ev' = [DiscEv("DiscReply", 200) EXCEPT
                 !.hits = disc.hits,
                 !.clean = ~Moved(disc),
                 !.results = Results(disc.hits, AgentsOf(disc.hits, agents),
                                     now, disc.minReputation)]
    /\ UNCHANGED <<aside, API_KEY, now, rateBucket, admitLog, agents, capabilities,
                   points, calls, reindex>>

\* a query of the handler throws: the error handler replies 500
\* (server.ts:439-450)
DiscFail ==
    /\ disc.pc # "idle"
    /\ disc' = IdleDisc
    /\ ev' = [DiscEv("DiscFail", 500) EXCEPT !.hits = disc.hits]
    /\ UNCHANGED <<aside, API_KEY, now, rateBucket, admitLog, agents, capabilities,
                   points, calls, reindex>>

-----------------------------------------------------------------------------
(* Request bodies *)

DidA == <<"a">>
DidB == <<"a", "|", "b">>
Dids == {DidA, DidB}

CapC  == <<"c">>
CapBC == <<"b", "|", "c">>

DescAB == <<"a", "b">>
DescB  == <<"B">>
DescEsc == <<"a", "\\", "b">>

EndpointH == <<"h">>
EndpointHSlash == <<"h", "/">>
EndpointG == <<"g">>
EndpointHSlashSlash == <<"h", "/", "/">>

CapInput(id, alias, description) ==
    [capabilityId |-> id, capability_id |-> alias, description |-> description]

Card(did, endpoint, publicKey, caps) ==
    [did |-> did, endpoint |-> endpoint, publicKey |-> publicKey,
     version |-> 1, lineage |-> NULL, capabilities |-> caps]

\* the card with the description of its first capability changed
Tamper(card) ==
    [card EXCEPT !.capabilities[1].description = @ \o <<"!">>]

\* unnamed/part_000:77-81, with the registry's own canonicalize
signACARD(card, key) == Sign(key, canonicalize(card))

\* acard_signature_given: the body has the key acard_signature (its value
\* may be the empty string, which NULL stands for as well)
RegisterBody(did, endpoint, caps, acard, sig) ==
    [did |-> did, name |-> NULL, endpoint |-> endpoint,
     walletAddress |-> NULL, capabilities |-> caps, acard |-> acard,
     acard_signature |-> sig, acard_signature_given |-> sig # NULL]

CardCapabilities == <<[id |-> CapC, description |-> DescAB]>>

\* what a client may send as the signature of `card`: nothing, garbage, the
\* signature of the card's key, of another key, or over a changed card
SignaturesFor(card) ==
    {NULL, BadSignature, signACARD(card, card.publicKey),
     signACARD(card, PK2), signACARD(Tamper(card), card.publicKey)}

CardBodiesFor(card, endpoint) ==
    {RegisterBody(DidA, endpoint, caps, Some(card), sig) :
        sig \in SignaturesFor(card),
        caps \in {<<CapInput(CapC, NULL, DescAB)>>,
                  <<CapInput(NULL, CapBC, DescB)>>,
                  <<CapInput(NULL, NULL, DescAB)>>}}

CardBodies ==
    UNION {CardBodiesFor(Card(d, e[1], PK1, CardCapabilities), e[2]) :
              d \in Dids,
              e \in {<<EndpointHSlash, NULL>>, <<EndpointHSlash, EndpointH>>,
                     <<EndpointHSlash, EndpointG>>, <<NULL, NULL>>}}
    \cup {RegisterBody(DidA, NULL, <<CapInput(CapC, NULL, DescAB)>>,
                       Some(Card(DidA, EndpointH, BadKey, CardCapabilities)),
                       signACARD(Card(DidA, EndpointH, BadKey,
                                      CardCapabilities), BadKey))}

CardlessBodies ==
    {RegisterBody(did, endpoint, caps, NULL, sig) :
        did \in Dids, endpoint \in {NULL, EndpointHSlash, <<"/">>},
        sig \in {NULL, BadSignature},
        caps \in {<<CapInput(CapC, NULL, DescAB)>>,
                  <<CapInput(NULL, CapBC, DescB)>>,
                  <<CapInput(NULL, NULL, DescAB)>>,
                  <<CapInput(CapC, NULL, NULL)>>}}

RegisterBodies == CardBodies \cup CardlessBodies

RateBodies == [did : {DidA}, reputation : {500, 1500}]

AvailabilityBodies ==
    [did : {DidA}, availability : {1000, 1500}, last_seen : {NULL}]

\* one client address, the key given or not
KeyHeaders == [xff : {NULL}, ip : {<<"1">>}, apiKey : {NULL, TheKey}]


-----------------------------------------------------------------------------
(* The service with one register call at a time and every shape of the     *)
(* register body                                                           *)

Next ==
    \/ \E hdr \in KeyHeaders : RegisterRequest(1, hdr, RegisterBodies)
    \/ RegDeleteCaps(1)
    \/ RegDeleteVec(1)
    \/ RegUpsertPoint(1)
    \/ RegInsertRow(1)
    \/ RegFail(1)

Spec == Init /\ [][Next]_vars

\* C4: a register request answered 400 or 401 leaves the agents table, the
\* capabilities table and the vector index as they were, and starts no write
\* phase.
C4_RejectWritesNothing ==
    [][(ev'.op = "RegisterRequest" /\ ev'.status \in {400, 401})
          => UNCHANGED <<agents, capabilities, points, calls>>]_vars

\* a register request is answered 401 while the stores hold a registration
C4_Witness ==
    /\ ev.op = "RegisterRequest" /\ ev.status = 401
    /\ DOMAIN agents # {} /\ capabilities # <<>> /\ points # EmptyBag

\* the stored card of did is the one whose signature was verified
CardHolds(did) ==
    LET a == agents[did]
        card == Val(a.acard_raw)
    IN  a.acard_raw # NULL =>
           /\ a.acard_signature # NULL
           /\ card.publicKey \in PublicKeys
           /\ a.acard_signature = Sign(card.publicKey, canonicalize(card))
           /\ card.did = did

\* every capability row of did names a capability of the stored card
RowsInCard(did) ==
    LET a == agents[did]
        rows == RowsOf(capabilities, did)
    IN  a.acard_raw # NULL =>
           \A k \in DOMAIN rows :
              rows[k].capability_id \in acardCapIds(Val(a.acard_raw))

\* C5 as the specification states it: in every state, for every agent row
\* with a stored card, the signature is stored and verifies, the card's did
\* is the row's did, and every capability row of the agent is in the card.
C5_Original ==
    \A did \in DOMAIN agents : CardHolds(did) /\ RowsInCard(did)

\* C5: in every state an agent row with a stored card has a stored signature
\* that verifies against the card's public key, and the card's did is the
\* row's did; every capability row of the agent is in the card once a
\* register call for the did that nothing overlapped has replied 200, and
\* from then on until a register call for that did takes its next step.
C5_Card ==
    /\ [](\A did \in DOMAIN agents : CardHolds(did))
    /\ []((ev.route = "register" /\ ev.status = 200 /\ ev.clean)
             => RowsInCard(ev.did))
    /\ [][\A did \in DOMAIN agents :
             (RowsInCard(did)
                /\ ~(ev'.route = "register" /\ ev'.slot # 0
                       /\ ev'.did = did))
             => RowsInCard(did)']_vars

\* a register with a card replies 200 for a did that had rows before
C5_Witness ==
    /\ ev.route = "register" /\ ev.status = 200 /\ ev.clean
    /\ agents[ev.did].acard_raw # NULL
    /\ ev.had[1] > 0

-----------------------------------------------------------------------------
(* Two connections registering concurrently, with reindex runs: the        *)
(* replacement of an agent's capability set across the two stores          *)

OneClient == [xff |-> NULL, ip |-> <<"1">>, apiKey |-> NULL]

ReplaceBodies ==
    {RegisterBody(DidA, EndpointHSlash,
                  <<CapInput(CapC, NULL, DescAB), CapInput(NULL, CapBC, DescB)>>,
                  NULL, NULL),
     RegisterBody(DidA, EndpointH, <<CapInput(NULL, NULL, DescEsc)>>,
                  NULL, NULL),
     RegisterBody(DidB, EndpointH, <<CapInput(CapC, NULL, DescAB)>>,
                  NULL, NULL)}

InitReplace == Init /\ API_KEY = NULL

NextReplace ==
    \/ \E s \in Slots : RegisterRequest(s, OneClient, ReplaceBodies)
    \/ \E s \in Slots : RegDeleteCaps(s)
    \/ \E s \in Slots : RegDeleteVec(s)
    \/ \E s \in Slots : RegUpsertPoint(s)
    \/ \E s \in Slots : RegInsertRow(s)
    \/ \E s \in Slots : RegFail(s)
    \/ ReindexRequest(OneClient)
    \/ ReindexUpsert
    \/ ReindexFail

SpecReplace == InitReplace /\ [][NextReplace]_vars

IsPrefix(p, q) == Len(p) <= Len(q) /\ SubSeq(q, 1, Len(p)) = p

\* the payloads a list of normalized capabilities puts into the index
PayloadBag(did, caps) ==
    LET payload(k) == [agentDid |-> did, capabilityId |-> caps[k].capabilityId,
                       description |-> caps[k].description]
    IN  [p \in {payload(k) : k \in DOMAIN caps} |->
            Cardinality({k \in DOMAIN caps : payload(k) = p})]

\* C1: when a register call for did replies 200 and no register call for
\* did and no reindex overlapped it, the capability rows of did are exactly
\* the submitted capabilities, in order, and the vector points of did are
\* exactly one per submitted capability, whatever rows and points of did
\* earlier calls left.
C1_Replace ==
    (ev.route = "register" /\ ev.status = 200 /\ ev.clean) =>
        LET rows == RowsOf(capabilities, ev.did)
        IN  /\ Len(rows) = Len(ev.caps)
            /\ \A k \in DOMAIN rows :
                  /\ rows[k].capability_id = ev.caps[k].capabilityId
                  /\ rows[k].description = ev.caps[k].description
            /\ PointCount(points, ev.did) = Len(ev.caps)
            /\ PointsOf(points, ev.did) = PayloadBag(ev.did, ev.caps)

\* a register of one capability replies 200 for a did that had two rows and
\* two points or more when the call began
C1_Witness ==
    /\ ev.route = "register" /\ ev.status = 200 /\ ev.clean
    /\ Len(ev.caps) = 1
    /\ ev.had[1] = 2 /\ ev.had[2] >= 2
    /\ Len(RowsOf(capabilities, ev.did)) = 1

\* C17: when the last register call for did that ended had failed in its
\* write phase (reply 500), a register call for did that replies 200 and that
\* no register call for did and no reindex overlapped leaves the rows of did
\* equal to its submitted capabilities and the points of did equal to one
\* point per submitted capability: nothing of the failed call remains.
C17_Retry ==
    (ev.route = "register" /\ ev.status = 200 /\ ev.clean /\ ev.after) =>
        LET rows == RowsOf(capabilities, ev.did)
            row(k) == [agent_did |-> ev.did,
                       capability_id |-> ev.caps[k].capabilityId,
                       description |-> ev.caps[k].description]
        IN  /\ rows = [k \in DOMAIN ev.caps |-> row(k)]
            /\ PointsOf(points, ev.did) = PayloadBag(ev.did, ev.caps)

\* the failed call had left one row and two points of did (it stopped
\* between the second vector upsert and the second insert), and the next
\* call for did replies 200
C17_Witness ==
    /\ ev.route = "register" /\ ev.status = 200 /\ ev.clean /\ ev.after
    /\ ev.had = <<1, 2>>
    /\ Len(ev.caps) = 1

\* C18: a register request whose capabilities all name their id, sent right
\* after the reply 200 of a register call with the same body and itself
\* replying 200, with nothing overlapping either call, leaves the agent row
\* of did, the capability rows of did and the bag of point payloads of did as
\* they were after the first call.
C18_Idempotent ==
    (/\ ev.route = "register" /\ ev.status = 200 /\ ev.clean
     /\ ev.once # NULL
     /\ MissingIds(Val(ev.body).capabilities) = 0) =>
        /\ ev.did \in DOMAIN agents
        /\ agents[ev.did] = Val(ev.once).agent
        /\ RowsOf(capabilities, ev.did) = Val(ev.once).rows
        /\ PointsOf(points, ev.did) = Val(ev.once).points

\* the second of two successive runs of a request of two capabilities with
\* explicit ids replies 200
C18_Witness ==
    /\ ev.route = "register" /\ ev.status = 200 /\ ev.clean
    /\ ev.once # NULL
    /\ MissingIds(Val(ev.body).capabilities) = 0
    /\ Len(ev.caps) = 2
    /\ Len(Val(ev.once).rows) = 2
    /\ BagCardinality(Val(ev.once).points) = 2

\* every capability row of did has a vector point whose payload carries the
\* same agentDid and capabilityId
RowsHavePoints(rows, pts, did) ==
    \A k \in DOMAIN rows :
        rows[k].agent_did = did =>
            \E p \in DOMAIN pts :
                p.agentDid = did /\ p.capabilityId = rows[k].capability_id

HasDeletedCaps(trace) == \E j \in DOMAIN trace : trace[j] = "deleteCaps"

C27_Step ==
    \A s \in Slots :
        (InFlight(s) /\ ~calls[s].ov) =>
            /\ RowsHavePoints(capabilities, points, calls[s].did)
                  => RowsHavePoints(capabilities', points', calls[s].did)
            /\ (HasDeletedCaps(calls[s].trace) \/ AtOp(s, "deleteCaps"))
                  => RowsHavePoints(capabilities', points', calls[s].did)

C27_During ==
    \A s \in Slots :
        (InFlight(s) /\ ~calls[s].ov /\ HasDeletedCaps(calls[s].trace)) =>
            RowsHavePoints(capabilities, points, calls[s].did)

\* C27: while a register call for did that no register call for did
\* overlaps is in flight, no step, its own failure and its last step
\* included, leaves a capability row of did without a vector point of the
\* same agentDid and capabilityId when every row had one before; and from
\* the deletion of the rows on, at every state of the call and in the state
\* its failure or its reply leaves, every row of did has one.
C27_PointBeforeRow == [][C27_Step]_vars /\ []C27_During

\* a call that nothing overlapped failed between the vector upsert of its
\* second capability and the insert of that capability's row: did has one
\* row and two points
C27_Witness ==
    /\ ev.op = "RegFail" /\ ev.clean
    /\ Len(ev.trace) = 6 /\ ev.trace[6] = "upsertPoint"
    /\ Len(RowsOf(capabilities, ev.did)) = 1
    /\ PointCount(points, ev.did) = 2
    /\ RowsHavePoints(capabilities, points, ev.did)

\* the payloads that a sequence of capability rows of did calls for
PayloadsOfRows(did, rows) ==
    LET payload(k) == [agentDid |-> did,
                       capabilityId |-> rows[k].capability_id,
                       description |-> rows[k].description]
    IN  [p \in {payload(k) : k \in DOMAIN rows} |->
            Cardinality({k \in DOMAIN rows : payload(k) = p})]

\* C31: when the second of two register calls for did that overlapped each
\* other, and that no other call and no reindex overlapped, replies 200
\* after the first replied 200, the capability rows of did and the vector
\* points of did correspond one to one by capabilityId and both are the
\* submitted capabilities of one of the two calls.
C31_OneOfTheTwo ==
    (ev.route = "register" /\ ev.status = 200 /\ ev.peer # NULL) =>
        LET rows == PayloadsOfRows(ev.did, RowsOf(capabilities, ev.did))
            pts  == PointsOf(points, ev.did)
        IN  /\ rows = pts
            /\ \E caps \in {ev.caps, Val(ev.peer)} :
                  rows = PayloadBag(ev.did, caps)

\* the payloads that a sequence of capability rows calls for
RowPayloads(rows) ==
    LET payload(k) == [agentDid |-> rows[k].agent_did,
                       capabilityId |-> rows[k].capability_id,
                       description |-> rows[k].description]
    IN  [p \in {payload(k) : k \in DOMAIN rows} |->
            Cardinality({k \in DOMAIN rows : payload(k) = p})]

\* the last upsert of a reindex run that read the rows as they are now, no
\* register call in flight, the index holding one point per row and what
\* this run has added
LastUpsertOfReindex ==
    /\ reindex.at # 0 /\ reindex.at = Len(reindex.rows)
    /\ ev'.op = "ReindexUpsert" /\ ev'.status = 200
    /\ \A s \in Slots : ~InFlight(s)
    /\ reindex.rows = capabilities
    /\ points = RowPayloads(capabilities)
                    (+) RowPayloads(SubSeq(reindex.rows, 1, reindex.at - 1))

\* C32: when a reindex run replies 200 that began with one vector point per
\* capability row and that no register call overlapped, the vector points of
\* every did number one per capability row of did.
C32_OnePointPerRow ==
    [][LastUpsertOfReindex =>
          \A r \in 1..Len(capabilities') :
              PointCount(points', capabilities'[r].agent_did)
                  = Len(RowsOf(capabilities', capabilities'[r].agent_did))]_vars

\* the order of the store operations of a register of n capabilities
ExpectedOrder(n) ==
    [j \in 1..(3 + 2 * n) |->
        IF j = 1 THEN "upsertAgent"
        ELSE IF j = 2 THEN "deleteCaps"
        ELSE IF j = 3 THEN "deleteVec"
        ELSE IF j % 2 = 0 THEN "upsertPoint" ELSE "insertRow"]

DeletesDone == <<"upsertAgent", "deleteCaps", "deleteVec">>

\* C3: a register call performs upsert agent, delete rows, delete points,
\* then per capability (vector upsert, relational insert), in that order;
\* when both deletions of a call that nothing overlapped are done and it has
\* written nothing new yet, no row and no point of did is left.
C3_Order ==
    /\ \A s \in Slots :
          InFlight(s) =>
             /\ IsPrefix(calls[s].trace, ExpectedOrder(Len(calls[s].caps)))
             /\ (calls[s].trace = DeletesDone /\ ~calls[s].ov /\ ~calls[s].ovx)
                   => /\ RowsOf(capabilities, calls[s].did) = <<>>
                      /\ PointCount(points, calls[s].did) = 0
    /\ (ev.route = "register" /\ ev.trace # <<>>) =>
          /\ IsPrefix(ev.trace, ExpectedOrder(Len(ev.caps)))
          /\ ev.status = 200 => ev.trace = ExpectedOrder(Len(ev.caps))

\* both deletions of a call are done for a did that had rows and points
C3_Witness ==
    \E s \in Slots :
        /\ InFlight(s) /\ calls[s].trace = DeletesDone
        /\ ~calls[s].ov /\ ~calls[s].ovx
        /\ calls[s].had[1] > 0 /\ calls[s].had[2] > 0

-----------------------------------------------------------------------------
(* Registration, heartbeat, rating and discovery with the API key set: a   *)
(* writing client and a searching client; a register call and a discovery  *)
(* do not overlap, heartbeats and ratings fall anywhere                    *)

Writer == [xff |-> NULL, ip |-> <<"1">>, apiKey |-> TheKey]
Searchers == [xff : {<<"2">>}, ip : {<<"1">>}, apiKey : {NULL, TheKey}]

DiscRegisterBodies ==
    {RegisterBody(DidA, EndpointH,
                  <<CapInput(CapC, NULL, DescB), CapInput(NULL, CapBC, DescAB)>>,
                  NULL, NULL),
     RegisterBody(DidA, EndpointH, <<CapInput(CapC, NULL, DescEsc)>>,
                  NULL, NULL),
     RegisterBody(DidB, EndpointH, <<CapInput(CapC, NULL, DescAB)>>,
                  NULL, NULL)}

HeartbeatBody(did, availability, last_seen) ==
    [did |-> did, availability |-> availability, last_seen |-> last_seen]

\* heartbeats stamped by the server, and one whose client stamp is stale
DiscAvailabilityBodies ==
    {HeartbeatBody(DidA, 500, NULL), HeartbeatBody(DidA, 0, NULL),
     HeartbeatBody(DidA, 500, Some(StartNow - (2 * HEARTBEAT_TTL_MS) - 1))}

DiscRateBodies == [did : {DidA}, reputation : {500}]

SearchBody(query, limit, minReputation) ==
    [query |-> query, limit |-> limit, minReputation |-> minReputation]

DiscoveryBodies ==
    {SearchBody(Some(DescB), NULL, NULL),
     SearchBody(Some(DescB), Some(1), NULL),
     SearchBody(Some(DescB), NULL, Some(500)),
     SearchBody(Some(DescEsc), NULL, NULL),
     SearchBody(NULL, NULL, NULL),
     SearchBody(Some(DescB), Some(0), NULL),
     SearchBody(Some(DescB), Some(MAX_LIMIT + 1), NULL),
     SearchBody(Some(DescB), NULL, Some(1001))}

InitDisc == Init /\ API_KEY = TheKey

NextDisc ==
    \/ disc.pc = "idle" /\ RegisterRequest(1, Writer, DiscRegisterBodies)
    \/ RegDeleteCaps(1)
    \/ RegDeleteVec(1)
    \/ RegUpsertPoint(1)
    \/ RegInsertRow(1)
    \/ RegFail(1)
    \/ \E body \in DiscAvailabilityBodies : AvailabilityRequest(Writer, body)
    \/ \E body \in DiscRateBodies : ReputationRequest(Writer, body)
    \/ ~InFlight(1) /\ \E hdr \in Searchers, body \in DiscoveryBodies :
                          DiscoveryRequest(hdr, body)
    \/ DiscKeyword
    \/ DiscReply
    \/ DiscFail

SpecDisc == InitDisc /\ [][NextDisc]_vars

\* a discovery has just been answered 200
DiscAnswered ==
    ev.route = "discovery" /\ ev.status = 200
       /\ ev.op \in {"DiscKeyword", "DiscReply"}

Chars(str) == {str[i] : i \in DOMAIN str}

\* the payloads that the capability rows of did call for
RowsBag(did) ==
    LET rows == RowsOf(capabilities, did)
        payload(k) == [agentDid |-> did,
                       capabilityId |-> rows[k].capability_id,
                       description |-> rows[k].description]
    IN  [p \in {payload(k) : k \in DOMAIN rows} |->
            Cardinality({k \in DOMAIN rows : payload(k) = p})]

\* the stores hold did as a successful register leaves it
Registered(did) ==
    /\ did \in DOMAIN agents
    /\ RowsOf(capabilities, did) # <<>>
    /\ PointsOf(points, did) = RowsBag(did)
    /\ \A s \in Slots : ~(InFlight(s) /\ calls[s].did = did)

Returned(did) == \E i \in DOMAIN ev.results : ev.results[i].agentDid = did

Discoverable(row) ==
    LET a == agents[row.agent_did]
    IN  /\ "\\" \notin Chars(ev.query)
        /\ "|" \notin Chars(row.agent_did)
        /\ "|" \notin Chars(row.capability_id)
        /\ a.last_seen # NULL
        /\ ev.t - Val(a.last_seen) <= 2 * HEARTBEAT_TTL_MS
        /\ a.availability_score > 0
        /\ a.reputation >= ev.minReputation

C6_NoKeyNeeded == ev.route = "discovery" => ev.status # 401

\* C10: no two results of a discovery response have the same agentDid and
\* the same capabilityId.
C10_NoDuplicates ==
    DiscAnswered =>
        \A i, j \in DOMAIN ev.results :
            (i < j) =>
               <<ev.results[i].agentDid, ev.results[i].capabilityId>>
                  # <<ev.results[j].agentDid, ev.results[j].capabilityId>>

\* the vector search and the lexical search returned the same pair, and the
\* response holds it
C10_Witness ==
    /\ DiscAnswered
    /\ \E i, j \in DOMAIN ev.hits :
          /\ i < j
          /\ ev.hits[i].payload.agentDid = ev.hits[j].payload.agentDid
          /\ ev.hits[i].payload.capabilityId = ev.hits[j].payload.capabilityId
          /\ ev.hits[i].score # ev.hits[j].score
          /\ \E r \in DOMAIN ev.results :
                /\ ev.results[r].agentDid = ev.hits[i].payload.agentDid
                /\ ev.results[r].capabilityId
                      = ev.hits[i].payload.capabilityId

\* the place in the merged hit list of the hit a result was built from: the
\* first hit of its pair
SourceHit(r) ==
    CHOOSE k \in DOMAIN ev.hits :
        /\ ev.hits[k].payload.agentDid = r.agentDid
        /\ ev.hits[k].payload.capabilityId = r.capabilityId
        /\ \A j \in 1..(k - 1) :
              ~(/\ ev.hits[j].payload.agentDid = r.agentDid
                /\ ev.hits[j].payload.capabilityId = r.capabilityId)

\* C11: the results of a discovery response are in non-increasing order of
\* combined score, results of equal score stand in the order of their hits
\* in the merged hit list, and in that list every vector hit precedes every
\* lexical hit.
C11_Sorted ==
    DiscAnswered =>
        /\ \A i, j \in DOMAIN ev.results :
              (i < j) =>
                 /\ ev.results[i].score >= ev.results[j].score
                 /\ (ev.results[i].score = ev.results[j].score)
                       => SourceHit(ev.results[i]) < SourceHit(ev.results[j])
        /\ \A i, j \in DOMAIN ev.hits :
              (i < j /\ ev.hits[i].score = KEYWORD_SCORE)
                 => ev.hits[j].score \notin Scores

\* the sort moved a lexical hit ahead of a weaker vector hit
C11_Witness ==
    /\ DiscAnswered
    /\ \E i, j \in DOMAIN ev.results :
          /\ i < j
          /\ ev.results[i].score > ev.results[j].score
          /\ SourceHit(ev.results[i]) > SourceHit(ev.results[j])

\* the vector hits of the pair of result r, by their places in the hit list
VectorHitsOf(r) ==
    {k \in DOMAIN ev.hits :
        /\ ev.hits[k].score \in Scores
        /\ ev.hits[k].payload.agentDid = r.agentDid
        /\ ev.hits[k].payload.capabilityId = r.capabilityId}

\* C12: the result of a pair that the vector search returned carries the
\* score of the pair's first vector hit as its vectorScore, also when the
\* lexical search returned the pair too; the result of a pair that only the
\* lexical search returned has vectorScore 0.45.
C12_VectorWins ==
    DiscAnswered =>
        \A i \in DOMAIN ev.results :
            LET r == ev.results[i]
                V == VectorHitsOf(r)
            IN  IF V # {}
                THEN \E k \in V : /\ \A j \in V : k <= j
                                  /\ r.vectorScore = ev.hits[k].score
                ELSE r.vectorScore = KEYWORD_SCORE

\* two results: a pair returned by both searches with its cosine score, and
\* a pair returned by the lexical search alone
C12_Witness ==
    /\ DiscAnswered /\ Len(ev.results) = 2
    /\ \E i, j \in DOMAIN ev.results :
          /\ VectorHitsOf(ev.results[i]) # {}
          /\ \E k \in DOMAIN ev.hits :
                /\ ev.hits[k].score = KEYWORD_SCORE
                /\ ev.hits[k].payload.agentDid = ev.results[i].agentDid
                /\ ev.hits[k].payload.capabilityId = ev.results[i].capabilityId
          /\ ev.results[i].vectorScore \in Scores
          /\ VectorHitsOf(ev.results[j]) = {}
          /\ ev.results[j].vectorScore = KEYWORD_SCORE

\* C13: a discovery whose embedding or vector search failed goes on: the
\* failure is answered by no reply, the merged hit list holds lexical hits
\* only, and when the request is answered 200 with no write overlapping it,
\* its hits and results are those of the lexical search alone.
C13_VectorFailure ==
    /\ (ev.op = "DiscoveryRequest" /\ ev.vfail)
          => (ev.status = 0 /\ disc.pc = "keyword" /\ disc.hits = <<>>)
    /\ (DiscAnswered /\ ev.vfail) =>
          /\ \A k \in DOMAIN ev.hits : ev.hits[k].score = KEYWORD_SCORE
          /\ \A i \in DOMAIN ev.results :
                ev.results[i].vectorScore = KEYWORD_SCORE
          /\ ev.clean =>
                /\ ev.hits = KeywordHits(capabilities, agents, ev.query)
                /\ ev.results =
                      Results(KeywordHits(capabilities, agents, ev.query),
                              agents, ev.t, ev.minReputation)

\* the vector search failed over a non-empty index and the response holds
\* lexical results
C13_Witness ==
    /\ DiscAnswered /\ ev.vfail /\ ev.clean
    /\ points # EmptyBag
    /\ ev.results # <<>>

-----------------------------------------------------------------------------
(* The availability gate over time: one agent, its heartbeats, and         *)
(* discoveries at the instants around the end of a heartbeat's validity    *)

GateRegisterBodies ==
    {RegisterBody(DidA, EndpointH, <<CapInput(CapC, NULL, DescB)>>,
                  NULL, NULL)}

GateAvailabilityBodies ==
    {HeartbeatBody(DidA, 500, NULL)}

GateRateBodies == [did : {DidA}, reputation : {500}]

GateDiscoveryBodies ==
    {SearchBody(Some(DescB), NULL, NULL),
     SearchBody(Some(DescB), NULL, Some(500))}

GateSearcher == [xff |-> <<"2">>, ip |-> <<"1">>, apiKey |-> TheKey]

\* the last instant at which a heartbeat of the start is fresh, and the next
GateInstants ==
    {StartNow + (2 * HEARTBEAT_TTL_MS), StartNow + (2 * HEARTBEAT_TTL_MS) + 1}

NextGate ==
    \/ \E t \in GateInstants : Tick(t)
    \/ disc.pc = "idle" /\ RegisterRequest(1, Writer, GateRegisterBodies)
    \/ RegDeleteCaps(1)
    \/ RegDeleteVec(1)
    \/ RegUpsertPoint(1)
    \/ RegInsertRow(1)
    \/ RegFail(1)
    \/ \E body \in GateAvailabilityBodies : AvailabilityRequest(Writer, body)
    \/ \E body \in GateRateBodies : ReputationRequest(Writer, body)
    \/ ~InFlight(1) /\ \E body \in GateDiscoveryBodies :
                          DiscoveryRequest(GateSearcher, body)
    \/ DiscKeyword
    \/ DiscReply
    \/ DiscFail

SpecGate == InitDisc /\ [][NextGate]_vars

\* the heartbeat of did is no older than 2 x HEARTBEAT_TTL at the reply
Fresh(did) ==
    /\ agents[did].last_seen # NULL
    /\ ev.t - Val(agents[did].last_seen) <= 2 * HEARTBEAT_TTL_MS

C15_Filter ==
    DiscAnswered =>
        \A i \in DOMAIN ev.results :
            LET r == ev.results[i]
            IN  /\ r.availabilityScore # NULL
                /\ Val(r.availabilityScore) > 0
                /\ r.reputationScore >= ev.minReputation
                /\ ev.clean =>
                      /\ agents[r.agentDid].reputation >= ev.minReputation
                      /\ agents[r.agentDid].availability_score > 0
                      /\ Fresh(r.agentDid)

\* a discovery with minReputation 0.5 returns an agent rated 0.5
C15_Witness ==
    /\ DiscAnswered /\ ev.clean
    /\ ev.minReputation = 500
    /\ ev.results # <<>>
    /\ agents[ev.results[1].agentDid].reputation = 500

\* C16: a discovery response holds at most `limit` results (the request's
\* limit, 5 by default).
C16_AtMostLimit ==
    DiscAnswered => Len(ev.results) <= ev.limit

-----------------------------------------------------------------------------
(* Re-registration of one agent under every shape of its agent fields: the  *)
(* upsert of the agents row (server.ts:214-227)                              *)

WalletUpper == <<"0", "x">> \o [i \in 1..WALLET_HEX_DIGITS |-> "A"]
WalletOther == <<"0", "x">> \o [i \in 1..WALLET_HEX_DIGITS |-> "b"]
WalletShort == <<"0", "x", "A">>
AgentName == <<"n">>

AgentCards ==
    {Card(DidA, EndpointH, PK1, CardCapabilities),
     [Card(DidA, EndpointH, PK1, CardCapabilities) EXCEPT !.lineage = <<"l">>]}

AgentBody(name, endpoint, walletAddress, acard) ==
    [RegisterBody(DidA, endpoint, <<CapInput(CapC, NULL, DescAB)>>, acard,
                  IF acard = NULL THEN NULL
                  ELSE signACARD(Val(acard), Val(acard).publicKey))
        EXCEPT !.name = name, !.walletAddress = walletAddress]

\* no acard, and acard_signature: ""
EmptySignatureBody ==
    [RegisterBody(DidA, EndpointH, <<CapInput(CapC, NULL, DescAB)>>, NULL, NULL)
        EXCEPT !.acard_signature_given = TRUE]

AgentBodies ==
    {AgentBody(name, endpoint, wallet, acard) :
        name \in {NULL, AgentName},
        endpoint \in {EndpointH, EndpointG},
        wallet \in {NULL, WalletUpper, WalletOther, WalletShort},
        acard \in {NULL} \cup {Some(card) : card \in AgentCards}}
    \cup {RegisterBody(DidA, EndpointH,
                       <<CapInput(CapC, NULL, DescAB),
                         CapInput(NULL, CapC, DescB)>>, NULL, NULL),
          RegisterBody(DidA, EndpointHSlashSlash,
                       <<CapInput(CapC, NULL, DescAB)>>, NULL, NULL),
          RegisterBody(DidA, <<"/">>,
                       <<CapInput(CapC, NULL, DescAB)>>, NULL, NULL),
          AgentBody(NULL, <<"/">>, NULL,
                    Some(Card(DidA, EndpointH, PK1, CardCapabilities))),
          EmptySignatureBody}

NextAgent ==
    \/ RegisterRequest(1, OneClient, AgentBodies)
    \/ RegDeleteCaps(1)
    \/ RegDeleteVec(1)
    \/ RegUpsertPoint(1)
    \/ RegInsertRow(1)
    \/ RegFail(1)

SpecAgent == InitReplace /\ [][NextAgent]_vars

\* C21: in every state the capability rows of one agent have pairwise
\* distinct capability_id values.
C21_UniqueIds ==
    \A j, k \in DOMAIN capabilities :
        (/\ capabilities[j].agent_did = capabilities[k].agent_did
         /\ capabilities[j].capability_id = capabilities[k].capability_id)
            => j = k

\* C22: every endpoint stored in the agents table is non-empty and does not
\* end with a slash.
C22_StoredEndpoint ==
    \A did \in DOMAIN agents :
        /\ Truthy(agents[did].endpoint)
        /\ Last(agents[did].endpoint) # "/"

\* C24: a register request with a card that passes the validation and
\* carries an endpoint has normalize(body.endpoint) = normalize(card.endpoint),
\* and the endpoint stored for the agent equals both.
C24_EndpointsAgree ==
    (/\ ev.op = "RegisterRequest" /\ ev.status = 0
     /\ Val(ev.body).acard # NULL
     /\ Val(ev.body).endpoint # NULL) =>
        LET b == Val(ev.body)
            card == Val(b.acard)
        IN  /\ normalizeEndpoint(b.endpoint) = normalizeEndpoint(card.endpoint)
            /\ agents[ev.did].endpoint = normalizeEndpoint(b.endpoint)

\* C25: a register request that passes the validation has both acard and
\* acard_signature or neither of them: one with exactly one of the two is
\* answered 400.
C25_BothOrNeither ==
    (ev.op = "RegisterRequest" /\ ev.status = 0) =>
        (Val(ev.body).acard # NULL <=> Val(ev.body).acard_signature_given)

\* C19: when a register request passes the validation and its did has an
\* agent row, the row's wallet_address after the upsert is the stored one if
\* the request carries no walletAddress and the request's, lowercased,
\* otherwise; name, endpoint, public_key, acard_version, acard_lineage,
\* acard_signature and acard_raw are the request's values, null where the
\* request has none.
C19_Upsert ==
    (ev.op = "RegisterRequest" /\ ev.status = 0 /\ ev.was # NULL) =>
        LET b    == Val(ev.body)
            old  == Val(ev.was)
            new  == agents[ev.did]
            card == Val(b.acard)
            has  == b.acard # NULL
        IN  /\ new.wallet_address =
                  IF b.walletAddress = NULL THEN old.wallet_address
                  ELSE lowerCase(b.walletAddress)
            /\ new.name = b.name
            /\ new.endpoint =
                  IF Truthy(normalizeEndpoint(b.endpoint))
                  THEN normalizeEndpoint(b.endpoint)
                  ELSE normalizeEndpoint(card.endpoint)
            /\ new.public_key = IF has THEN card.publicKey ELSE NULL
            /\ new.acard_version = IF has THEN Some(card.version) ELSE NULL
            /\ new.acard_lineage = IF has THEN card.lineage ELSE NULL
            /\ new.acard_signature = IF has THEN b.acard_signature ELSE NULL
            /\ new.acard_raw = b.acard

\* a card-less request without name and walletAddress re-registers an agent
\* stored with a name, a wallet, a card and its lineage
C19_Witness ==
    /\ ev.op = "RegisterRequest" /\ ev.status = 0 /\ ev.was # NULL
    /\ Val(ev.body).walletAddress = NULL /\ Val(ev.body).acard = NULL
    /\ Val(ev.body).name = NULL
    /\ Val(ev.was).wallet_address = lowerCase(WalletUpper)
    /\ Val(ev.was).name # NULL
    /\ Val(ev.was).acard_lineage # NULL
    /\ agents[ev.did].wallet_address = lowerCase(WalletUpper)
    /\ agents[ev.did].acard_lineage = NULL
    /\ agents[ev.did].public_key = NULL

-----------------------------------------------------------------------------
(* Every operation of the service on the stores: register and reindex from  *)
(* one address, reputation, availability and discovery from another; a       *)
(* discovery overlaps no register call and no reindex run                    *)

StoreRegisterBodies ==
    {RegisterBody(DidA, EndpointH, <<CapInput(CapC, NULL, DescB)>>, NULL, NULL),
     RegisterBody(DidB, EndpointH, <<CapInput(CapC, NULL, DescAB)>>, NULL, NULL)}

StoreRateBodies == [did : {DidA}, reputation : {500}]
StoreAvailabilityBodies == {HeartbeatBody(DidB, 500, NULL)}
StoreDiscoveryBodies == {SearchBody(Some(DescB), NULL, NULL)}

NextStore ==
    \/ disc.pc = "idle" /\ RegisterRequest(1, Writer, StoreRegisterBodies)
    \/ RegDeleteCaps(1)
    \/ RegDeleteVec(1)
    \/ RegUpsertPoint(1)
    \/ RegInsertRow(1)
    \/ RegFail(1)
    \/ \E body \in StoreRateBodies : ReputationRequest(GateSearcher, body)
    \/ \E body \in StoreAvailabilityBodies :
          AvailabilityRequest(GateSearcher, body)
    \/ /\ ~InFlight(1) /\ reindex.at = 0
       /\ \E body \in StoreDiscoveryBodies :
             DiscoveryRequest(GateSearcher, body)
    \/ DiscKeyword
    \/ DiscReply
    \/ DiscFail
    \/ disc.pc = "idle" /\ ReindexRequest(Writer)
    \/ ReindexUpsert
    \/ ReindexFail

SpecStore == InitDisc /\ [][NextStore]_vars

\* C20: in every state the agent_did of each capability row is the did of an
\* agent row (did is the key of the agents table, so of exactly one), and no
\* step of register, reputation, availability, discovery or reindex removes
\* a did from the agents table.
C20_AgentsKept ==
    /\ [](\A k \in DOMAIN capabilities :
             capabilities[k].agent_did \in DOMAIN agents)
    /\ [][DOMAIN agents \subseteq DOMAIN agents']_vars

\* a register call for a new agent has failed before it inserted a row,
\* while another agent has rows: both agent rows are there
C20_Witness ==
    /\ ev.op = "RegFail"
    /\ RowsOf(capabilities, ev.did) = <<>>
    /\ capabilities # <<>>
    /\ Cardinality(DOMAIN agents) = 2

-----------------------------------------------------------------------------
(* Registrations of two agents, with ratings and heartbeats of the first    *)
(* from another address, before and after the limiter's window has passed:  *)
(* what a register call leaves alone                                        *)

\* the first instant of the next window of a request made at the start
FrameInstant == StartNow + RATE_LIMIT_WINDOW_MS + 1

FrameRegisterBodies ==
    {AgentBody(AgentName, EndpointH, WalletUpper, NULL),
     RegisterBody(DidB, EndpointH, <<CapInput(CapC, NULL, DescAB)>>,
                  NULL, NULL)}

FrameRater == [xff |-> <<"2">>, ip |-> <<"1">>, apiKey |-> NULL]

NextFrame ==
    \/ Tick(FrameInstant)
    \/ RegisterRequest(1, OneClient, FrameRegisterBodies)
    \/ RegDeleteCaps(1)
    \/ RegDeleteVec(1)
    \/ RegUpsertPoint(1)
    \/ RegInsertRow(1)
    \/ RegFail(1)
    \/ ReputationRequest(FrameRater, [did |-> DidA, reputation |-> 500])
    \/ AvailabilityRequest(FrameRater, HeartbeatBody(DidA, 500, NULL))

SpecFrame == InitReplace /\ [][NextFrame]_vars

\* the step leaves the agent row, the capability rows and the vector points
\* of did as they are
Untouched(did) ==
    /\ did \in DOMAIN agents =>
          did \in DOMAIN agents' /\ agents'[did] = agents[did]
    /\ did \notin DOMAIN agents => did \notin DOMAIN agents'
    /\ RowsOf(capabilities', did) = RowsOf(capabilities, did)
    /\ PointsOf(points', did) = PointsOf(points, did)

\* C33: no step of a register call, from the request to its reply, changes
\* the reputation, the availability_score, the last_seen or the created_at
\* of the agent row its did already has, and none changes the agent row, the
\* capability rows or the vector points of another did.
C33_Frame ==
    [][ev'.route = "register" =>
          \A did \in Dids :
              IF did = ev'.did
              THEN did \in DOMAIN agents =>
                      /\ did \in DOMAIN agents'
                      /\ agents'[did].reputation = agents[did].reputation
                      /\ agents'[did].availability_score
                            = agents[did].availability_score
                      /\ agents'[did].last_seen = agents[did].last_seen
                      /\ agents'[did].created_at = agents[did].created_at
              ELSE Untouched(did)]_vars

\* a register request for an agent created in an earlier window, rated and
\* seen since, has passed the validation and written its agent row, while
\* another agent has a row and a point
C33_Witness ==
    /\ ev.op = "RegisterRequest" /\ ev.status = 0 /\ ev.was # NULL
    /\ agents[ev.did].reputation = 500
    /\ agents[ev.did].availability_score = 500
    /\ agents[ev.did].last_seen # NULL
    /\ agents[ev.did].created_at < now
    /\ \E did \in Dids \ {ev.did} :
          /\ did \in DOMAIN agents
          /\ RowsOf(capabilities, did) # <<>>
          /\ PointCount(points, did) > 0

-----------------------------------------------------------------------------
(* normalizeEndpoint (acard.ts:53-56) on every url of slashes and letters   *)

MaxUrlLen == 4

RECURSIVE UrlsOfLen(_)
UrlsOfLen(n) ==
    IF n = 0 THEN {<<>>}
    ELSE {Append(u, ch) : u \in UrlsOfLen(n - 1), ch \in {"h", "/"}}

Urls == UNION {UrlsOfLen(n) : n \in 0..MaxUrlLen}

InitNorm == Init /\ API_KEY = NULL

\* normalizeEndpoint(x)
Normalize ==
    /\ probe.nx = NULL
    /\ probe' = [probe EXCEPT !.nx = Some(normalizeEndpoint(probe.x))]
    /\ UNCHANGED <<service, embedder, embeds>>

\* normalizeEndpoint(x + "/")
NormalizeSlash ==
    /\ probe.nxs = NULL
    /\ probe' = [probe EXCEPT
                    !.nxs = Some(normalizeEndpoint(Append(probe.x, "/")))]
    /\ UNCHANGED <<service, embedder, embeds>>

\* normalizeEndpoint(normalizeEndpoint(x))
NormalizeAgain ==
    /\ probe.nx # NULL /\ probe.nnx = NULL
    /\ probe' = [probe EXCEPT !.nnx = Some(normalizeEndpoint(Val(probe.nx)))]
    /\ UNCHANGED <<service, embedder, embeds>>

\* the caller picks the url
ChooseUrl(x) ==
    /\ probe = NoProbe /\ x # NULL
    /\ probe' = [probe EXCEPT !.x = x]
    /\ UNCHANGED <<service, embedder, embeds>>

NextNorm ==
    \/ \E x \in Urls : ChooseUrl(x)
    \/ Normalize
    \/ NormalizeSlash
    \/ NormalizeAgain

SpecNorm == InitNorm /\ [][NextNorm]_vars

\* C23: normalizeEndpoint(x + "/") = normalizeEndpoint(x), and
\* normalizeEndpoint(normalizeEndpoint(x)) = normalizeEndpoint(x).
C23_NormalizeLaws ==
    /\ (probe.nx # NULL /\ probe.nxs # NULL) => Val(probe.nxs) = Val(probe.nx)
    /\ probe.nnx # NULL => Val(probe.nnx) = Val(probe.nx)

-----------------------------------------------------------------------------
(* The embed calls of register's loop (server.ts:234-236) and of discovery  *)
(* (server.ts:323), from concurrent requests                                 *)

Blank == <<" ">>

\* capabilities that pass capabilitySchema, as register normalizes them
EmbedCaps ==
    normalizedCaps(
        SelectSeq(<<CapInput(CapC, NULL, DescB), CapInput(Blank, NULL, Blank)>>,
                  CapabilityParses),
        UUIDS)

EmbedTexts ==
    {capabilityText(EmbedCaps[k].capabilityId, EmbedCaps[k].description) :
        k \in DOMAIN EmbedCaps}

NextEmbed ==
    \/ \E c \in Callers, text \in EmbedTexts : EmbedCall(c, text)
    \/ LoadSucceeds
    \/ LoadFails
    \/ \E c \in Callers : EmbedLoaded(c)
    \/ \E c \in Callers : EmbedPiped(c)
    \/ \E c \in Callers : EmbedPipeFails(c)

SpecEmbed == InitReplace /\ [][NextEmbed]_vars

\* C26: every vector that embed returns for the text of a capability of a
\* register payload has dimension 384 and norm 1.
C26_UnitVectors ==
    \A c \in Callers :
        embeds[c].pc = "done" =>
            /\ Val(embeds[c].vector).dim = 384
            /\ Val(embeds[c].vector).norm = 1

\* the call of c is an embed of non-empty text
Embeds(c) == embeds[c].pc # "idle" /\ Truthy(embeds[c].text)

\* c makes a call of embed in this step
Calls(c) == embeds[c].pc \in {"idle", "done"} /\ embeds'[c] # embeds[c]

C29_Step ==
    /\ ~embedder.useRealEmbeddings => ~embedder'.useRealEmbeddings
    /\ \A c \in Callers :
          /\ (Calls(c) /\ Truthy(embeds'[c].text)
                  /\ embedder.useRealEmbeddings
                  /\ embedder.loadingPromise = "pending")
                => embeds'[c].pc = "load" /\ embedder' = embedder
          /\ (embeds[c].pc = "load" /\ embeds'[c].pc # "load")
                => /\ embedder.loadingPromise \in {"pipeline", "nothing"}
                   /\ embeds'[c].pc =
                         (IF embedder.loadingPromise = "pipeline"
                          THEN "pipe" ELSE "done")
          /\ (Calls(c) /\ Truthy(embeds'[c].text)
                  /\ ~embedder.useRealEmbeddings)
                => /\ embeds'[c].pc = "done" /\ embeds'[c].path = "hash"
                   /\ embedder' = embedder

C29_Always ==
    /\ embedder.loads <= 1
    /\ \A c \in Callers :
          (Embeds(c) /\ embeds[c].pc = "done" /\ ~embeds[c].began[2])
              => embeds[c].path = "hash"

\* C29: the model load is started at most once; an embed of non-empty text
\* called while the load is pending starts no load and awaits the pending
\* one, and a caller awaiting the load goes on only when it has ended, with
\* its outcome; useRealEmbeddings, once false, stays false, and every embed
\* of non-empty text called while it is false returns the hash vector
\* without touching the loader.
C29_SingleLoad == [][C29_Step]_vars /\ []C29_Always

\* the one load failed: a caller that had arrived while it was pending and a
\* caller that arrived after the failure both returned the hash vector
C29_Witness ==
    /\ embedder.loads = 1 /\ embedder.loadingPromise = "nothing"
    /\ \E c, d \in Callers :
          /\ embeds[c].pc = "done" /\ embeds[c].began = <<"pending", TRUE>>
          /\ embeds[c].path = "hash"
          /\ embeds[d].pc = "done" /\ embeds[d].began = <<"nothing", FALSE>>
          /\ embeds[d].path = "hash"

\* C30: an embed of non-empty text called when the outcome of the model
\* load is known returns the vector of the path that outcome decided: the
\* model's when the load succeeded, the hash vector when it failed.
C30_SamePath ==
    \A c \in Callers :
        (Embeds(c) /\ embeds[c].pc = "done"
            /\ embeds[c].began[1] \in {"pipeline", "nothing"}) =>
            embeds[c].path =
                (IF embeds[c].began[1] = "pipeline" THEN "model" ELSE "hash")

-----------------------------------------------------------------------------
(* The key-protected routes under every API key configuration and header   *)

GuardHeaders ==
    [xff : {NULL}, ip : {<<"1">>}, apiKey : ApiKeyHeaders]

GuardRegisterBodies ==
    {RegisterBody(DidA, EndpointH, <<CapInput(CapC, NULL, DescAB)>>,
                  NULL, NULL)}

NextGuard ==
    \/ \E hdr \in GuardHeaders : RegisterRequest(1, hdr, GuardRegisterBodies)
    \/ RegDeleteCaps(1)
    \/ RegDeleteVec(1)
    \/ RegUpsertPoint(1)
    \/ RegInsertRow(1)
    \/ RegFail(1)
    \/ \E hdr \in GuardHeaders, body \in RateBodies :
          ReputationRequest(hdr, body)
    \/ \E hdr \in GuardHeaders, body \in AvailabilityBodies :
          AvailabilityRequest(hdr, body)
    \/ \E hdr \in GuardHeaders : ReindexRequest(hdr)
    \/ ReindexUpsert
    \/ ReindexFail

SpecGuard == Init /\ [][NextGuard]_vars

KeyOps ==
    {"RegisterRequest", "ReputationRequest", "AvailabilityRequest",
     "ReindexRequest"}

\* the step leaves the stores alone and starts no handler work
HandlerDidNotRun == UNCHANGED <<agents, capabilities, points, calls, reindex>>

\* C7 as the specification states it: with the key set, a request on a
\* key-protected route whose x-api-key is not the key is answered 401 and
\* its handler does not run; with the key unset no request is answered 401.
C7_Original ==
    [][(ev'.op \in KeyOps) =>
          /\ (Truthy(API_KEY) /\ ev'.apiKey # API_KEY)
                => (ev'.status = 401 /\ HandlerDidNotRun)
          /\ ~Truthy(API_KEY) => ev'.status # 401]_vars

\* the rate limiter has the request's address over its limit
LimiterRejects ==
    /\ ev'.route # "reindex"
    /\ ev'.ip \in DOMAIN rateBucket
    /\ now <= rateBucket[ev'.ip].resetAt
    /\ rateBucket[ev'.ip].count >= RATE_LIMIT_MAX

\* C7: with the key set, a request on a key-protected route whose x-api-key
\* is not the key is answered 429 when the rate limiter, which runs first on
\* register, reputation and availability, has its address over the limit,
\* and 401 otherwise; either way its handler does not run and no store is
\* modified.  With the key unset the key guard rejects no request.
C7_KeyGuard ==
    [][(ev'.op \in KeyOps) =>
          /\ (Truthy(API_KEY) /\ ev'.apiKey # API_KEY)
                => /\ ev'.status = (IF LimiterRejects THEN 429 ELSE 401)
                   /\ HandlerDidNotRun
          /\ ~Truthy(API_KEY) => ev'.status # 401]_vars

\* a request with a wrong key is answered 401 while the stores hold a
\* registration
C7_Witness ==
    /\ ev.op \in KeyOps /\ ev.status = 401
    /\ API_KEY = TheKey /\ ev.apiKey = <<"k", "k">>
    /\ DOMAIN agents # {} /\ capabilities # <<>>

\* the entry of the request's address after the limiter has counted it
Counted(bucket, ip, t) ==
    IF ip \notin DOMAIN bucket \/ t > bucket[ip].resetAt
    THEN [count |-> 1, resetAt |-> t + RATE_LIMIT_WINDOW_MS]
    ELSE [bucket[ip] EXCEPT !.count = @ + 1]

\* C28: on register, reputation and availability, which carry both guards,
\* a request that finds its address over the limit is answered 429 whatever
\* its x-api-key, and a request answered 401 has been counted: its address's
\* entry is the one the limiter writes for an admitted request.
C28_LimiterFirst ==
    [][(ev'.op \in KeyOps /\ HasRateLimit(ev'.route)
            /\ HasApiGuard(ev'.route)) =>
          /\ LimiterRejects => ev'.status = 429
          /\ ev'.status = 401 =>
                /\ ~LimiterRejects
                /\ ev'.ip \in DOMAIN rateBucket'
                /\ rateBucket'[ev'.ip] = Counted(rateBucket, ev'.ip, now)
                /\ admitLog' = LogAdmit(admitLog, ev'.ip, now)]_vars

\* with the key set, a request without x-api-key is answered 429: its
\* address had used up its window
C28_Witness ==
    /\ ev.op \in KeyOps /\ ev.route # "reindex" /\ ev.status = 429
    /\ API_KEY = TheKey /\ ev.apiKey = NULL
    /\ rateBucket[ev.ip].count = RATE_LIMIT_MAX

-----------------------------------------------------------------------------
(* The admission layer on its own: requests from several addresses at the  *)
(* instants around the window boundaries                                   *)

RateHeaders ==
    [xff : {NULL, <<" ", "2", " ", ",", "1">>}, ip : {<<"1">>},
     apiKey : {NULL, TheKey}]

NextRate ==
    \/ \E t \in Instants : Tick(t)
    \/ \E hdr \in RateHeaders, body \in RateBodies :
          ReputationRequest(hdr, body)

SpecRate == Init /\ [][NextRate]_vars

RateLimitedOps ==
    {"RegisterRequest", "ReputationRequest", "AvailabilityRequest",
     "DiscoveryRequest"}

\* the requests of ip admitted in its current window, as the history has them
AdmittedInWindow(ip) ==
    LET b == rateBucket[ip]
        log == admitLog[ip]
    IN  Cardinality({i \in DOMAIN log :
            b.resetAt - RATE_LIMIT_WINDOW_MS <= log[i] /\ log[i] <= b.resetAt})

\* C8: per IP and window at most RATE_LIMIT_MAX requests are admitted; a
\* request at t <= resetAt that finds count >= RATE_LIMIT_MAX is answered
\* 429 and leaves the entry alone; a request at t > resetAt (or the first of
\* its IP) is admitted and opens the window {1, t + W}; any other request
\* is admitted and counted.
C8_Step ==
    ev'.op \in RateLimitedOps =>
        LET ip == ev'.ip
            fresh == ip \notin DOMAIN rateBucket
        IN  IF fresh \/ now > rateBucket[ip].resetAt
            THEN /\ ev'.status # 429
                 /\ rateBucket'[ip] =
                       [count |-> 1, resetAt |-> now + RATE_LIMIT_WINDOW_MS]
            ELSE IF rateBucket[ip].count >= RATE_LIMIT_MAX
            THEN ev'.status = 429 /\ rateBucket'[ip] = rateBucket[ip]
            ELSE /\ ev'.status # 429
                 /\ rateBucket'[ip] =
                       [rateBucket[ip] EXCEPT !.count = @ + 1]

C8_Cap ==
    \A ip \in DOMAIN admitLog :
        /\ ip \in DOMAIN rateBucket
        /\ AdmittedInWindow(ip) <= RATE_LIMIT_MAX
        /\ rateBucket[ip].count <= RATE_LIMIT_MAX

C8_RateLimit == [][C8_Step]_vars /\ []C8_Cap

\* a window filled to the cap, a later request of the same IP after resetAt
\* admitted as the first of a new window
C8_Witness ==
    /\ ev.op \in RateLimitedOps /\ ev.status # 429
    /\ Len(admitLog[ev.ip]) = RATE_LIMIT_MAX + 1
    /\ rateBucket[ev.ip] = [count |-> 1, resetAt |-> now + RATE_LIMIT_WINDOW_MS]
    /\ AdmittedInWindow(ev.ip) = 1

\* C34: a request answered 429 leaves rateBucket as it is; a request
\* admitted at t <= resetAt of its IP's entry adds one to the entry's count
\* and keeps its resetAt; no request adds, removes or changes the entry of
\* another IP; a step that is no request of a rate-limited route leaves
\* rateBucket as it is.
C34_Frame ==
    [][IF ev'.op \in RateLimitedOps
       THEN LET ip == ev'.ip
            IN  /\ ev'.status = 429 => rateBucket' = rateBucket
                /\ (ip \in DOMAIN rateBucket /\ now <= rateBucket[ip].resetAt
                        /\ ev'.status # 429)
                      => /\ rateBucket'[ip].count = rateBucket[ip].count + 1
                         /\ rateBucket'[ip].resetAt = rateBucket[ip].resetAt
                /\ DOMAIN rateBucket' = DOMAIN rateBucket \cup {ip}
                /\ \A other \in DOMAIN rateBucket \ {ip} :
                      rateBucket'[other] = rateBucket[other]
       ELSE rateBucket' = rateBucket]_vars

\* a request admitted as the second of its window, later than the first,
\* while another IP has an entry
C34_Witness ==
    /\ ev.op \in RateLimitedOps /\ ev.status # 429 /\ ev.status # 0
    /\ rateBucket[ev.ip].count = 2
    /\ rateBucket[ev.ip].resetAt < ev.t + RATE_LIMIT_WINDOW_MS
    /\ DOMAIN rateBucket # {ev.ip}

\* C9: a 429 reply carries Retry-After = ceil((resetAt - t) / 1000) for its
\* IP's entry, an integer from 0 to ceil(W / 1000)
C9_RetryAfter ==
    ev.status = 429 =>
        /\ ev.retry # NULL
        /\ LET b == rateBucket[ev.ip]
               r == Val(ev.retry)
           IN  /\ (r - 1) * 1000 < b.resetAt - ev.t
               /\ b.resetAt - ev.t <= r * 1000
               /\ 0 <= r
               /\ (r - 1) * 1000 < RATE_LIMIT_WINDOW_MS

\* a 429 that has to round up: 1001 ms left, Retry-After 2
C9_Witness ==
    /\ ev.status = 429
    /\ rateBucket[ev.ip].resetAt - ev.t = 1001
    /\ ev.retry = Some(2)

=============================================================================
